---- MODULE Spec2Model ----
(***************************************************************************)
(* Mail ingestion of stina-ext-mail: the new-mail handler (polling.ts),    *)
(* the processed-mail store (db/processedRepository.ts) and the IMAP       *)
(* connector's retry helper (imap/client.ts).                              *)
(*                                                                         *)
(* One account is modelled.  Its mailbox holds the messages with UIDs      *)
(* 1..mailboxTop; the Message-ID of the message with UID u is written u    *)
(* (Message-IDs are unique per message).  Two handleNewEmail invocations   *)
(* may be in flight at once: the one the IDLE session starts and the one   *)
(* the poll scheduler starts.  A step of an invocation is the code between *)
(* two awaits.                                                             *)
(***************************************************************************)
EXTENDS Integers, Sequences, FiniteSets, TLC

\* Highest UID the mail server hands out in a run.
MaxUid == 3

\* Default of fetchNewEmails' limit parameter.
FETCH_LIMIT == 50

\* The two sources of handleNewEmail invocations for one account.
Invocations == {"idle", "poll"}

Uids == 1..MaxUid

VARIABLES
    mailboxTop,                  \* the INBOX holds UIDs 1..mailboxTop
    processed,                   \* the 'processed' collection: set of documents
    sessionInitializedAccounts,  \* TRUE iff the account is in the process-wide set
    inv,                         \* per invocation: position and locals
    appendCalls,                 \* history: UID -> number of appendInstruction calls
    claimsWon,                   \* history: UID -> number of tryMarkProcessed calls that returned true
    appendFailed,                \* history: UIDs whose appendInstruction call threw
    session,                     \* history: facts about the current process lifetime
    retry,                       \* a call of ImapClient.withRetry
    clock,                       \* Date.now(), in milliseconds
    accountDoc,                  \* the account's document in the 'accounts' collection
    vault,                       \* the account's credentials secret
    tokenEndpoint,               \* the authorization server: tokens issued so far
    cred,                        \* a call of ensureFreshCredentials
    boot,                        \* activate(), its initialization, dispose()
    calls,                       \* per user: host calls in flight or settled
    ext,                         \* the extension's bookkeeping of what it started
    host,                        \* the host: user registry, workers, poll jobs
    state,                       \* the IdleState of the account's IDLE session
    deletion,                    \* the accounts.delete call on the account
    worker,                      \* the task of the user's IDLE worker
    refreshLoop,                 \* tokenRefreshLoop of the worker
    sessions,                    \* per account: its session in the worker's IdleManager
    activeConnections,           \* per account: the worker's entry {account, client}
    accounts,                    \* per account: stored document and access token
    faults,                      \* history: a refresh or a connect failed, or a session gave up
    user,                        \* one user: stored accounts, registry entry, poll job, worker
    ops,                         \* per operation on the user's accounts: its position
    edit,                        \* the user's entry in editStates
    flow,                        \* the pollForOAuthToken call of the user
    sync,                        \* an accounts.updateSyncStatus call on the account
    settingsRow,                 \* the user's document in the 'settings' collection
    settingsOps,                 \* the SettingsRepository calls in flight
    backlog                      \* a large INBOX polled by one handler at a time

\* The variables of the ingestion path, of the IMAP connector, and of the
\* account with its credentials
ingestVars == <<mailboxTop, processed, sessionInitializedAccounts, inv,
                appendCalls, claimsWon, appendFailed, session>>
connectorVars == <<retry>>
credentialVars == <<clock, accountDoc, vault, tokenEndpoint, cred>>

lifecycleVars == <<boot, calls, ext, host>>
idleVars == <<state>>
deleteVars == <<deletion>>
workerVars == <<worker, refreshLoop, sessions, activeConnections, accounts, faults>>
registryVars == <<user, ops>>
oauthVars == <<edit, flow>>
syncVars == <<sync>>
settingsVars == <<settingsRow, settingsOps>>
backlogVars == <<backlog>>

vars == <<ingestVars, connectorVars, credentialVars, lifecycleVars, idleVars, deleteVars,
          workerVars, registryVars, oauthVars, syncVars, settingsVars,
          backlogVars>>

\* What a step of the ingestion path / of the connector / of the credential
\* refresh leaves alone
outsideIngestion == <<backlogVars, oauthVars, syncVars, settingsVars, registryVars, workerVars, deleteVars, connectorVars, credentialVars, lifecycleVars, idleVars>>
outsideConnector == <<backlogVars, oauthVars, syncVars, settingsVars, registryVars, workerVars, deleteVars, ingestVars, credentialVars, lifecycleVars, idleVars>>
outsideCredentials == <<backlogVars, oauthVars, syncVars, settingsVars, registryVars, workerVars, deleteVars, ingestVars, connectorVars, lifecycleVars, idleVars>>
outsideLifecycle == <<backlogVars, oauthVars, syncVars, settingsVars, registryVars, workerVars, deleteVars, ingestVars, connectorVars, credentialVars, idleVars>>
outsideIdle == <<backlogVars, oauthVars, syncVars, settingsVars, registryVars, workerVars, deleteVars, ingestVars, connectorVars, credentialVars, lifecycleVars>>

----------------------------------------------------------------------------
\* Helpers

Max(S) == IF S = {} THEN 0 ELSE CHOOSE x \in S : \A y \in S : y <= x

RECURSIVE Range(_, _)
\* <<lo, lo+1, ..., hi>>
Range(lo, hi) == IF lo > hi THEN <<>> ELSE <<lo>> \o Range(lo + 1, hi)

\* Array.prototype.slice(-n)
SliceLast(s, n) == IF Len(s) <= n THEN s ELSE SubSeq(s, Len(s) - n + 1, Len(s))

----------------------------------------------------------------------------
\* The host storage API on the 'processed' collection

\* storage.get(collection, id)
StorageGet(rows, id) == {r \in rows : r.id = id}

\* storage.findOne(collection, {accountId, messageId})
StorageFindOne(rows, messageId) == {r \in rows : r.messageId = messageId}

\* storage.put(collection, id, doc): the document stored under doc.id is replaced
StoragePut(rows, doc) == {r \in rows : r.id # doc.id} \cup {doc}

\* A generateId that returns the same id on every call
generateIdFixed(rows, messageId) == <<"prc", 0, 0>>

\* generateId('prc'): an id no stored document has (documents are never
\* removed, so counting the generated ids held for the message gives a new one)
generateId(rows, messageId) ==
    <<"prc", messageId,
      Cardinality({r \in rows : r.id[1] = "prc" /\ r.messageId = messageId}) + 1>>

\* `prc_${accountId}_${messageId}`
DeterministicId(messageId) == <<"det", messageId>>

ProcessedDocument(id, messageId, uid) == [id |-> id, messageId |-> messageId, uid |-> uid]

\* ProcessedRepository.getHighestUid
getHighestUid(rows) == Max({r.uid : r \in rows})

\* ImapClient.fetchNewEmails: UIDs above sinceUid, the last `limit` of them, ascending
fetchNewEmails(top, sinceUid, limit) == SliceLast(Range(sinceUid + 1, top), limit)

----------------------------------------------------------------------------
\* Decisions of handleNewEmail

\* The choice of rule without the session-restart rule
BranchOfWithoutSessionRule(sinceUid, initialized) ==
    IF sinceUid = 0 THEN "baseline" ELSE "normal"

\* Which rule applies after the watermark is read: the baseline rule, the
\* session-restart rule, or the normal path
BranchOf(sinceUid, initialized) ==
    IF sinceUid = 0 THEN "baseline"
    ELSE IF ~initialized THEN "resync"
    ELSE "normal"

\* The lowest fetched UID in place of the highest
lowestUid(emails) == emails[1]

\* syncAccountBaseline: the UID it marks, Math.max(...emails.map(e => e.uid))
highestUid(emails) == Max({emails[i] : i \in 1..Len(emails)})

\* A loop body without the `if (!wasMarked) continue`
ProceedsAlways(wasMarked) == TRUE

\* `if (!wasMarked) continue`: the loop body goes on to deliver iff the claim succeeded
ProceedsToDeliver(wasMarked) == wasMarked

\* A catch block that gives the claim back
catchHandlerRollback(rows, messageId) == {r \in rows : r.messageId # messageId}

\* The catch block of handleNewEmail: it logs, and leaves the store as it is
catchHandler(rows, messageId) == rows

----------------------------------------------------------------------------
\* State of an invocation slot

\* credentials: the account was loaded with its stored credentials (without
\* the secret it is loaded with empty ones, and no fetch with them succeeds)
Idle == [pc |-> "idle", mode |-> "none", first |-> FALSE, sinceUid |-> 0,
         emails |-> <<>>, at |-> 1, wasMarked |-> FALSE, created |-> 0,
         credentials |-> FALSE]

\* kind: "restart" iff the process started with a baseline in the store;
\* preexisting: the mailbox top when the first invocation of the session began;
\* resyncTop: the mailbox top when the first-of-session invocation returned;
\* replayed: a message at or below preexisting was passed to appendInstruction
NewSession(kind) == [kind |-> kind, preexisting |-> -1, resyncTop |-> -1, replayed |-> FALSE]

NoCall == [pc |-> "idle", op |-> "none", attempt |-> 0, client |-> FALSE,
           lastError |-> [isError |-> FALSE, message |-> "", code |-> ""],
           calls |-> 0, thrown |-> <<>>]

\* MailCredentials: PasswordCredentials | OAuth2Credentials.  A token is
\* written as the number the authorization server issued it under; 0 is the
\* empty string
PasswordCredentials ==
    [type |-> "password", accessToken |-> 0, refreshToken |-> 0, expiresAt |-> 0]

OAuth2Credentials(accessToken, refreshToken, expiresAt) ==
    [type |-> "oauth2", accessToken |-> accessToken, refreshToken |-> refreshToken,
     expiresAt |-> expiresAt]

\* The account document; puts counts the storage.put calls on it
AccountDocument(provider, puts) ==
    [exists |-> TRUE, provider |-> provider, puts |-> puts, enabled |-> TRUE]

\* handleNewEmail's account check, with every field but `exists` ignored
LoadsDisabled(doc) == doc.exists

\* handleNewEmail goes on with the account it loaded: `!account || !account.enabled`
\* is false
Loads(doc) == doc.exists /\ doc.enabled

\* The credentials secret; sets counts the secrets.set calls on it
Secret(credentials, sets) == [exists |-> TRUE, credentials |-> credentials, sets |-> sets]

\* TokenResponse of a refresh that has not happened
NoResponse == [accessToken |-> 0, refreshToken |-> 0, expiresIn |-> 0]

NoEnsure == [pc |-> "idle", account |-> AccountDocument("imap", 0),
             credentials |-> PasswordCredentials, refreshedAt |-> 0,
             server |-> NoResponse, tokenResponse |-> NoResponse,
             newCredentials |-> PasswordCredentials, returned |-> PasswordCredentials]

\* Users of the host
MaxUsers == 2

Users == 1..MaxUsers

\* Before activate(): nothing is started
NotActivated == [pc |-> "inactive", detached |-> FALSE, activated |-> FALSE,
                 disposed |-> FALSE, atBoot |-> {}, userIds |-> <<>>, at |-> 1]

\* A host call that has not been made
NoCalls == [start |-> "none", schedule |-> "none", oauth |-> "none", save |-> "none"]

\* No IDLE session: the account has no entry in IdleManager.connections.
\* pc: where the session's loop is; connected: its client holds an open
\* connection; stop: progress of a stopIdle call of the owner; refresh:
\* progress of reconnectIdle; failures (history): the IDLE errors since the
\* last successful IDLE round trip (a rejection that doIdle takes for an
\* intentional stop ends the loop and is no error); wasReset (history): a round trip has set
\* a count above 0 back to 0
NoSession == [pc |-> "none", inMap |-> FALSE, isIdling |-> FALSE, reconnectAttempts |-> 0,
              connected |-> FALSE, stop |-> "none", refresh |-> "none",
              failures |-> 0, wasReset |-> FALSE]

\* Accounts of the user of the worker
MaxAccounts == 2

Accounts == 1..MaxAccounts

\* The worker task before the host runs it.  at: the account its loop over
\* enabledAccounts is at; credentials: the token ensureFreshCredentials gave;
\* enabledAccounts: the accounts the task listed at its start
NoWorker == [pc |-> "none", at |-> 1, credentials |-> 0, aborted |-> FALSE,
             enabledAccounts |-> {}]

\* tokenRefreshLoop before it is started.  failed: accounts whose refresh
\* threw and has not been attempted again since; dropped: accounts whose
\* connect failed after the loop's stopIdle, and that it has not connected since
NoRefreshLoop == [pc |-> "none", at |-> 1, newCredentials |-> 0, failed |-> {},
                  dropped |-> {}]

\* No entry in the connections map of the worker's IdleManager, no IDLE loop
NoIdle == [loop |-> "none", inMap |-> FALSE, client |-> 0]

\* No entry in activeConnections
NotTracked == [tracked |-> FALSE, client |-> 0, credentials |-> 0]

\* The ways an account is saved: the saveAccount action of actions/index.ts,
\* the saveAccount action of index.ts, the device-code flow, the
\* mail_accounts_add tool
Saves == {"saveAccount", "saveAccountIndex", "oauth", "tool"}

\* The ways an account is deleted: the deleteAccount action, the
\* mail_accounts_delete tool
Deletes == {"deleteAccount", "deleteTool"}

\* getDefaultEditState(); present: the object is the user's entry in
\* editStates.  editingId 0 is null; form.of names the account whose values
\* the form holds, 0 for the blank form
DefaultEditState ==
    [present |-> FALSE, showModal |-> FALSE, editingId |-> 0,
     form |-> [of |-> 0, provider |-> "icloud"], oauthStatus |-> "pending"]

\* pollForOAuthToken has not been called.  detached: the edit state object it
\* holds is no longer the user's entry, and `own` is that object;
\* savedTo: the id accounts.upsert was called with (-1 not called, 0 undefined)
NoFlow ==
    [pc |-> "none", attempt |-> 0, polls |-> 0, last |-> "none", outcome |-> "none",
     detached |-> FALSE, own |-> DefaultEditState,
     startedFor |-> 0, startedForm |-> 0, savedTo |-> -1, savedForm |-> 0,
     registered |-> FALSE, scheduled |-> FALSE]

\* A fresh account: no baseline, nothing delivered.  watermark is
\* getHighestUid of its Processed rows, next..hi the fetched UIDs not yet claimed
NoBacklog ==
    [pc |-> "idle", top |-> 0, baseline |-> 0, watermark |-> 0, next |-> 0, hi |-> 0,
     delivered |-> {}]

\* No 'user-settings' document; an instruction is written as a number, 0 for
\* the empty string
NoSettingsDocument == [exists |-> FALSE, instruction |-> 0]

\* No SettingsRepository call is running.  get: the get of handleNewEmail;
\* view: the get of the settings view; update: an update call, with the get it begins with;
\* value: the instruction the update was called with; completed (history):
\* the instruction of the update that returned last, 0 before any
NoSettingsCalls ==
    [get |-> "none", view |-> "none", update |-> "none", value |-> 0, completed |-> 0]

\* updateSyncStatus is not running; doc: the document its storage.get
\* returned; calls: the calls made so far
NoSync == [pc |-> "none", doc |-> AccountDocument("imap", 0), calls |-> 0]

\* accounts.delete has not been called
NoDelete == [pc |-> "none", result |-> FALSE]

Init ==
    /\ backlog = NoBacklog
    /\ edit = DefaultEditState
    /\ flow = NoFlow
    /\ sync = NoSync
    /\ settingsRow = NoSettingsDocument
    /\ settingsOps = NoSettingsCalls
    /\ user = [stored |-> 0, registered |-> FALSE, job |-> FALSE, worker |-> FALSE]
    /\ ops = [k \in Saves \cup Deletes |-> "none"]
    /\ worker = NoWorker
    /\ refreshLoop = NoRefreshLoop
    /\ sessions = [a \in Accounts |-> NoIdle]
    /\ activeConnections = [a \in Accounts |-> NotTracked]
    /\ accounts = [a \in Accounts |-> [exists |-> TRUE, token |-> 1]]
    /\ faults = FALSE
    /\ deletion = NoDelete
    /\ state = NoSession
    /\ boot = NotActivated
    /\ calls = [u \in Users |-> NoCalls]
    /\ ext = [workerDisposables |-> {}, scheduledUsers |-> {}, schedulerDisposable |-> FALSE]
    /\ host = [registry |-> {}, workers |-> {}, jobs |-> {}, onFire |-> FALSE, extra |-> {}]
    /\ clock = 0
    /\ accountDoc = AccountDocument("imap", 0)
    /\ vault = Secret(PasswordCredentials, 0)
    /\ tokenEndpoint = 0
    /\ cred = NoEnsure
    /\ retry = NoCall
    /\ mailboxTop \in 0..MaxUid
    /\ processed = {}
    /\ sessionInitializedAccounts = FALSE
    /\ inv = [h \in Invocations |-> Idle]
    /\ appendCalls = [u \in Uids |-> 0]
    /\ claimsWon = [u \in Uids |-> 0]
    /\ appendFailed = {}
    /\ session = NewSession("fresh")

\* The session record once the invocation of h has returned
Returned(h, s) ==
    IF inv[h].first /\ s.resyncTop = -1 THEN [s EXCEPT !.resyncTop = mailboxTop] ELSE s

\* The invocation of h returns
Return(h) ==
    /\ inv' = [inv EXCEPT ![h] = Idle]
    /\ session' = Returned(h, session)

\* The message the loop of h is at
Current(h) == inv[h].emails[inv[h].at]

\* The loop of h moves to its next email, or leaves the loop
Continue(h) ==
    inv' = [inv EXCEPT ![h].at = @ + 1,
                       ![h].wasMarked = FALSE,
                       ![h].pc = IF inv[h].at < Len(inv[h].emails) THEN "tryMarkProcessed"
                                 ELSE "updateSyncStatus"]

\* The mail server accepts a new message
Arrive ==
    /\ mailboxTop < MaxUid
    /\ mailboxTop' = mailboxTop + 1
    /\ UNCHANGED <<processed, sessionInitializedAccounts, inv,
                   appendCalls, claimsWon, appendFailed, session>>
    /\ UNCHANGED outsideIngestion

\* handleNewEmail is invoked (by the IDLE callback or by the poll job) and
\* loads the account; with an enabled account the settings are loaded next,
\* with a disabled one or none the call is about to return
Start(h) ==
    /\ inv[h].pc = "idle"
    /\ inv' = IF Loads(accountDoc)
              THEN [inv EXCEPT ![h].pc = "getHighestUid", ![h].credentials = vault.exists]
              ELSE [inv EXCEPT ![h].pc = "noAccount"]
    /\ session' = IF Loads(accountDoc) /\ session.preexisting = -1
                  THEN [session EXCEPT !.preexisting = mailboxTop]
                  ELSE session
    /\ UNCHANGED <<mailboxTop, processed, sessionInitializedAccounts,
                   appendCalls, claimsWon, appendFailed>>
    /\ UNCHANGED outsideIngestion

\* The watermark is read and the rule is chosen; the session-restart rule
\* adds the account to sessionInitializedAccounts before its resync
ReadWatermark(h) ==
    /\ inv[h].pc = "getHighestUid"
    /\ LET sinceUid == getHighestUid(processed)
           mode == BranchOf(sinceUid, sessionInitializedAccounts)
       IN /\ inv' = [inv EXCEPT ![h].sinceUid = sinceUid,
                                ![h].mode = mode,
                                ![h].first = ~sessionInitializedAccounts,
                                ![h].pc = IF mode = "normal" THEN "fetch" ELSE "syncFetch"]
          /\ sessionInitializedAccounts' =
                 IF mode = "resync" THEN TRUE ELSE sessionInitializedAccounts
    /\ UNCHANGED <<mailboxTop, processed, appendCalls, claimsWon, appendFailed, session>>
    /\ UNCHANGED outsideIngestion

\* syncAccountBaseline loads the account and fetches from UID 0; without the
\* account it returns, and a failed fetch is caught and logged there
SyncFetch(h) ==
    /\ inv[h].pc = "syncFetch"
    /\ \E ok \in {b \in BOOLEAN : b => accountDoc.exists /\ vault.exists} :
          LET emails == fetchNewEmails(mailboxTop, 0, FETCH_LIMIT)
          IN inv' = [inv EXCEPT ![h].emails = IF ok THEN emails ELSE <<>>,
                                ![h].pc = IF ok /\ Len(emails) > 0 THEN "markProcessed"
                                          ELSE "syncReturn"]
    /\ UNCHANGED <<mailboxTop, processed, sessionInitializedAccounts,
                   appendCalls, claimsWon, appendFailed, session>>
    /\ UNCHANGED outsideIngestion

\* markProcessed looks the highest fetched message up by (account, message-id)
MarkFind(h) ==
    /\ inv[h].pc = "markProcessed"
    /\ LET latest == highestUid(inv[h].emails)
       IN inv' = [inv EXCEPT ![h].pc = IF StorageFindOne(processed, latest) # {}
                                       THEN "syncReturn" ELSE "markPut"]
    /\ UNCHANGED <<mailboxTop, processed, sessionInitializedAccounts,
                   appendCalls, claimsWon, appendFailed, session>>
    /\ UNCHANGED outsideIngestion

\* markProcessed stores the document under a generated id
MarkPut(h) ==
    /\ inv[h].pc = "markPut"
    /\ LET latest == highestUid(inv[h].emails)
       IN processed' = StoragePut(processed,
                           ProcessedDocument(generateId(processed, latest), latest, latest))
    /\ inv' = [inv EXCEPT ![h].pc = "syncReturn", ![h].created = @ + 1]
    /\ UNCHANGED <<mailboxTop, sessionInitializedAccounts,
                   appendCalls, claimsWon, appendFailed, session>>
    /\ UNCHANGED outsideIngestion

\* syncAccountBaseline returns; the baseline rule adds the account to
\* sessionInitializedAccounts now; handleNewEmail returns
SyncReturn(h) ==
    /\ inv[h].pc = "syncReturn"
    /\ sessionInitializedAccounts' =
           IF inv[h].mode = "baseline" THEN TRUE ELSE sessionInitializedAccounts
    /\ Return(h)
    /\ UNCHANGED <<mailboxTop, processed, appendCalls, claimsWon, appendFailed>>
    /\ UNCHANGED outsideIngestion

\* The normal path fetches the messages above the watermark it read; a failed
\* fetch ends the invocation in the catch block
Fetch(h) ==
    /\ inv[h].pc = "fetch"
    /\ \E ok \in {b \in BOOLEAN : b => inv[h].credentials} :
          LET emails == fetchNewEmails(mailboxTop, inv[h].sinceUid, FETCH_LIMIT)
          IN IF ~ok
             THEN Return(h)
             ELSE /\ inv' = [inv EXCEPT ![h].emails = emails,
                                        ![h].pc = IF Len(emails) > 0 THEN "tryMarkProcessed"
                                                  ELSE "updateSyncStatus"]
                  /\ UNCHANGED session
    /\ UNCHANGED <<mailboxTop, processed, sessionInitializedAccounts,
                   appendCalls, claimsWon, appendFailed>>
    /\ UNCHANGED outsideIngestion

\* tryMarkProcessed reads the document with the deterministic id
ClaimGet(h) ==
    /\ inv[h].pc = "tryMarkProcessed"
    /\ IF StorageGet(processed, DeterministicId(Current(h))) # {}
       THEN IF ProceedsToDeliver(FALSE)
            THEN inv' = [inv EXCEPT ![h].wasMarked = FALSE, ![h].pc = "appendInstruction"]
            ELSE Continue(h)
       ELSE inv' = [inv EXCEPT ![h].pc = "claimPut"]
    /\ UNCHANGED <<mailboxTop, processed, sessionInitializedAccounts,
                   appendCalls, claimsWon, appendFailed, session>>
    /\ UNCHANGED outsideIngestion

\* tryMarkProcessed stores the document and returns true
ClaimPut(h) ==
    /\ inv[h].pc = "claimPut"
    /\ LET m == Current(h)
       IN /\ processed' = StoragePut(processed,
                              ProcessedDocument(DeterministicId(m), m, m))
          /\ claimsWon' = [claimsWon EXCEPT ![m] = @ + 1]
    /\ IF ProceedsToDeliver(TRUE)
       THEN inv' = [inv EXCEPT ![h].wasMarked = TRUE, ![h].pc = "appendInstruction"]
       ELSE Continue(h)
    /\ UNCHANGED <<mailboxTop, sessionInitializedAccounts, appendCalls, appendFailed, session>>
    /\ UNCHANGED outsideIngestion

\* chat.appendInstruction is called with the instruction for the current
\* message; if it throws, the catch block ends the invocation
AppendInstruction(h) ==
    /\ inv[h].pc = "appendInstruction"
    /\ LET m == Current(h)
           called == [session EXCEPT !.replayed = @ \/ m <= session.preexisting]
       IN /\ appendCalls' = [appendCalls EXCEPT ![m] = @ + 1]
          /\ \E ok \in BOOLEAN :
                IF ok
                THEN /\ Continue(h)
                     /\ session' = called
                     /\ UNCHANGED <<processed, appendFailed>>
                ELSE /\ inv' = [inv EXCEPT ![h] = Idle]
                     /\ session' = Returned(h, called)
                     /\ processed' = catchHandler(processed, m)
                     /\ appendFailed' = appendFailed \cup {m}
    /\ UNCHANGED <<mailboxTop, sessionInitializedAccounts, claimsWon>>
    /\ UNCHANGED outsideIngestion

\* After the loop: accounts.updateSyncStatus(accountId, null); handleNewEmail returns
UpdateSyncStatus(h) ==
    /\ inv[h].pc = "updateSyncStatus"
    /\ Return(h)
    /\ UNCHANGED <<mailboxTop, processed, sessionInitializedAccounts,
                   appendCalls, claimsWon, appendFailed>>
    /\ UNCHANGED outsideIngestion

\* The process stops and starts again: invocations in flight are gone and
\* sessionInitializedAccounts is empty; the stored documents remain
Restart ==
    /\ sessionInitializedAccounts' = FALSE
    /\ inv' = [h \in Invocations |-> Idle]
    /\ session' = NewSession(IF getHighestUid(processed) > 0 THEN "restart" ELSE "fresh")
    /\ UNCHANGED <<mailboxTop, processed, appendCalls, claimsWon, appendFailed>>
    /\ UNCHANGED outsideIngestion

Next ==
    \/ Arrive
    \/ Restart
    \/ \E h \in Invocations :
          \/ Start(h)
          \/ ReadWatermark(h)
          \/ SyncFetch(h)
          \/ MarkFind(h)
          \/ MarkPut(h)
          \/ SyncReturn(h)
          \/ Fetch(h)
          \/ ClaimGet(h)
          \/ ClaimPut(h)
          \/ AppendInstruction(h)
          \/ UpdateSyncStatus(h)

Spec == Init /\ [][Next]_vars

----------------------------------------------------------------------------
\* Properties of the ingestion path (checked under Spec)

Pc(h) == inv[h].pc

\* The message m has been passed to appendInstruction, or the invocation that
\* claimed it is at the call
Handled(m) ==
    \/ appendCalls[m] >= 1
    \/ \E h \in Invocations : Pc(h) = "appendInstruction" /\ Current(h) = m

\* C1: for every message-id, appendInstruction is invoked at most once with
\* the instruction for it, across any interleaving of the IDLE-triggered and
\* the poll-triggered handleNewEmail.
C1_AtMostOneInstruction == \A m \in Uids : appendCalls[m] <= 1

\* C2: of the tryMarkProcessed calls on one (account, message-id) key, at
\* most one returns true, whatever the interleaving of their get and put.
C2_OneClaimWins == \A m \in Uids : claimsWon[m] <= 1

\* C4: after a process restart, no message that was in the mailbox when the
\* first invocation of the session began is passed to appendInstruction.
C4_NoReplayAfterRestart == session.kind = "restart" => ~session.replayed

\* C7: the processed collection holds at most one document per
\* (account, message-id).
C7_UniqueByMessageId ==
    \A r1, r2 \in processed : r1.messageId = r2.messageId => r1 = r2

\* C6: the watermark, getHighestUid over the stored documents, never
\* decreases in any step of markProcessed, tryMarkProcessed or handleNewEmail.
C6_WatermarkMonotone ==
    [][getHighestUid(processed') >= getHighestUid(processed)]_vars

\* C6 witness: the watermark has advanced past the baseline, with documents
\* written by markProcessed and by tryMarkProcessed.
C6_Witness ==
    /\ getHighestUid(processed) >= 2
    /\ \E r \in processed : r.id[1] = "prc"
    /\ \E r \in processed : r.id[1] = "det"

\* C8: appendInstruction is called for a message only by an invocation whose
\* own tryMarkProcessed for it returned true (and stored its document); an
\* invocation whose claim returned false does not reach the call.
C8_DeliverOnlyOwnClaim ==
    \A h \in Invocations :
        Pc(h) = "appendInstruction" =>
            /\ inv[h].wasMarked
            /\ StorageGet(processed, DeterministicId(Current(h))) # {}

\* C8 witness: one invocation is at appendInstruction for a message it
\* claimed while the other, whose claim for that message returned false, has
\* moved past it without a call.
C8_Witness ==
    \E h, g \in Invocations :
        /\ h # g
        /\ Pc(g) = "appendInstruction"
        /\ appendCalls[Current(g)] = 0
        /\ inv[h].mode = "normal"
        /\ inv[h].at > 1
        /\ inv[h].emails[inv[h].at - 1] = Current(g)

\* The steps of syncAccountBaseline, on which there is no delivery
SyncSteps == {"syncFetch", "markProcessed", "markPut", "syncReturn"}

\* The highest UID a non-empty fetch returned (fetches are ascending)
LastFetched(h) == inv[h].emails[Len(inv[h].emails)]

Fetched(h) == {inv[h].emails[i] : i \in 1..Len(inv[h].emails)}

C9_FailedDeliveryStaysClaimed ==
    /\ [](\A m \in appendFailed : StorageGet(processed, DeterministicId(m)) # {})
    /\ [][\A h \in Invocations :
              Pc(h) = "tryMarkProcessed" /\ Current(h) \in appendFailed =>
                  inv'[h].pc \notin {"claimPut", "appendInstruction"}]_vars

\* C9 witness: an invocation is about to try to claim a message whose
\* appendInstruction call has failed.
C9_Witness ==
    \E h \in Invocations : Pc(h) = "tryMarkProcessed" /\ Current(h) \in appendFailed

----------------------------------------------------------------------------
\* The IMAP connector's retry helper (imap/client.ts)

\* Maximum retry attempts for transient network errors
MAX_RETRY_ATTEMPTS == 3

UpperCase == "ABCDEFGHIJKLMNOPQRSTUVWXYZ"
LowerCase == "abcdefghijklmnopqrstuvwxyz"

\* One character, lower-cased
LowerChar(c) ==
    IF \E i \in 1..Len(UpperCase) : SubSeq(UpperCase, i, i) = c
    THEN LET i == CHOOSE j \in 1..Len(UpperCase) : SubSeq(UpperCase, j, j) = c
         IN SubSeq(LowerCase, i, i)
    ELSE c

RECURSIVE toLowerCase(_)
\* String.prototype.toLowerCase
toLowerCase(str) ==
    IF Len(str) = 0 THEN ""
    ELSE LowerChar(SubSeq(str, 1, 1)) \o toLowerCase(SubSeq(str, 2, Len(str)))

\* String.prototype.includes
includes(str, pattern) ==
    \E i \in 1..(Len(str) - Len(pattern) + 1) :
        SubSeq(str, i, i + Len(pattern) - 1) = pattern

\* The patterns isTransientError looks for
transientPatterns ==
    {"etimedout", "econnreset", "econnrefused", "enotfound", "enetunreach",
     "ehostunreach", "timeout", "socket hang up", "connection reset", "network",
     "temporary"}

\* A thrown value: isError tells an Error object from any other value; code is
\* "" when the object has none
Thrown(isError, message, code) == [isError |-> isError, message |-> message, code |-> code]

\* isTransientError
isTransientError(error) ==
    /\ error.isError
    /\ \E pattern \in transientPatterns :
          \/ includes(toLowerCase(error.message), pattern)
          \/ includes(toLowerCase(error.code), pattern)

\* What the IMAP library and the socket throw in the model
AuthenticationFailed == Thrown(TRUE, "Command failed", "AUTHENTICATIONFAILED")
NotConnected == Thrown(TRUE, "Not connected to IMAP server", "")
Errors ==
    {Thrown(TRUE, "connect ETIMEDOUT 17.0.0.1:993", "ETIMEDOUT"),
     Thrown(TRUE, "read ECONNRESET", ""),
     Thrown(TRUE, "Socket timeout", "ETIMEOUT"),
     Thrown(TRUE, "Unexpected close", "ECONNRESET"),
     Thrown(TRUE, "Temporary authentication failure", "NO"),
     AuthenticationFailed,
     Thrown(TRUE, "Command failed", "NO"),
     Thrown(FALSE, "socket hang up", "")}

\* The operations the client runs under withRetry
Operations == {"testConnection", "fetchNewEmails"}

\* A catch block that retries on every error while attempts remain
retriesAnyError(error, attempt) == attempt < MAX_RETRY_ATTEMPTS - 1

\* `isTransientError(error) && attempt < MAX_RETRY_ATTEMPTS - 1`
retries(error, attempt) == isTransientError(error) /\ attempt < MAX_RETRY_ATTEMPTS - 1

\* A public operation of ImapClient is called.  fetchNewEmails is called on a
\* client its caller has connected; testConnection connects inside the operation
Call(op) ==
    /\ retry.pc = "idle"
    /\ retry' = [NoCall EXCEPT !.pc = "operation", !.op = op,
                               !.client = (op = "fetchNewEmails")]
    /\ UNCHANGED outsideConnector

\* One attempt: `return await operation()`.  fetchNewEmails throws at once
\* when this.client is null; otherwise the attempt succeeds or throws.
\* testConnection has set this.client when it throws, and has disconnected
\* when it succeeds
Operation ==
    /\ retry.pc = "operation"
    /\ \E ok \in BOOLEAN, outcome \in Errors :
          LET unconnected == retry.op = "fetchNewEmails" /\ ~retry.client
              error == IF unconnected THEN NotConnected ELSE outcome
          IN IF ~unconnected /\ ok
             THEN retry' = [retry EXCEPT !.pc = "returned", !.calls = @ + 1,
                                         !.client = (retry.op = "fetchNewEmails")]
             ELSE retry' = [retry EXCEPT !.pc = "catch", !.calls = @ + 1,
                                         !.client = (retry.op = "testConnection") \/ @,
                                         !.lastError = error,
                                         !.thrown = Append(@, error)]
    /\ UNCHANGED outsideConnector

\* The catch block: disconnect (this.client stays set if logout throws), then
\* wait and go round again, or throw
Catch ==
    /\ retry.pc = "catch"
    /\ \E logoutThrows \in BOOLEAN :
          retry' = [retry EXCEPT !.client = @ /\ logoutThrows,
                                 !.pc = IF retries(retry.lastError, retry.attempt)
                                        THEN "delay" ELSE "thrown"]
    /\ UNCHANGED outsideConnector

\* The backoff delay is over: `continue` with attempt + 1
Delay ==
    /\ retry.pc = "delay"
    /\ retry' = [retry EXCEPT !.pc = IF retry.attempt + 1 < MAX_RETRY_ATTEMPTS
                                     THEN "operation" ELSE "thrown",
                              !.attempt = @ + 1]
    /\ UNCHANGED outsideConnector

\* withRetry has returned or thrown; the client object is dropped
Done ==
    /\ retry.pc \in {"returned", "thrown"}
    /\ retry' = NoCall
    /\ UNCHANGED outsideConnector

NextRetry ==
    \/ \E op \in Operations : Call(op)
    \/ Operation
    \/ Catch
    \/ Delay
    \/ Done

InitRetry == Init /\ mailboxTop = 0

SpecRetry == InitRetry /\ [][NextRetry]_vars

\* C10: withRetry runs the operation again only after an error that
\* isTransientError classifies as transient; after any other error (an
\* authentication failure, a value that is no Error) it throws without another
\* attempt; and it makes at most MAX_RETRY_ATTEMPTS attempts.
C10_RetryOnlyTransient ==
    /\ retry.calls <= MAX_RETRY_ATTEMPTS
    /\ \A i \in 1..Len(retry.thrown) :
          i < retry.calls => isTransientError(retry.thrown[i])
    /\ retry.pc \in {"delay", "operation"} /\ retry.thrown # <<>> =>
          /\ isTransientError(retry.lastError)
          /\ retry.lastError.isError
          /\ retry.lastError # AuthenticationFailed
    /\ retry.pc \in {"returned", "thrown"} /\ retry.thrown # <<>> =>
          \/ retry.pc = "returned"
          \/ ~isTransientError(retry.lastError)
          \/ retry.calls = MAX_RETRY_ATTEMPTS

\* C10 witness: the operation ran a second time after a transient error, and
\* then threw an authentication failure, on which withRetry threw.
C10_Witness ==
    /\ retry.pc = "thrown"
    /\ retry.calls = 2
    /\ isTransientError(retry.thrown[1])
    /\ retry.lastError = AuthenticationFailed

\* C11: every attempt of fetchNewEmails, a retry after a transient error
\* included, runs on a connected client, so that it can run SEARCH/FETCH
\* against the server and return the emails once the fault has cleared.
C11_FetchRetryReachesServer ==
    retry.op = "fetchNewEmails" /\ retry.pc = "operation" => retry.client

----------------------------------------------------------------------------
\* Credential refresh (credentials.ts, the OAuth providers, oauth/*.ts)

\* The clock runs for MaxTicks steps of TickMs
MaxTicks == 3

\* Tokens the authorization server issues in a run
MaxTokens == 3

\* The step of the clock: five minutes
TickMs == 5 * 60 * 1000

\* isGmailTokenExpired / isOutlookTokenExpired: default of bufferMinutes
bufferMinutes == 5

\* expires_in values (seconds) the token endpoint answers with
ExpiresIn == {300, 600, 900, 3600}

\* MailProvider
Providers == {"icloud", "gmail", "outlook", "imap"}

\* `provider.needsRefresh && provider.refreshCredentials`: the providers that
\* implement both
SupportsRefresh(provider) == provider \in {"gmail", "outlook"}

\* A buffer of twice the default
isTokenExpiredTwiceBuffer(expiresAt, now) == now >= expiresAt - 2 * bufferMinutes * 60 * 1000

\* isGmailTokenExpired / isOutlookTokenExpired, with Date.now() = now
isTokenExpired(expiresAt, now) == now >= expiresAt - bufferMinutes * 60 * 1000

\* GmailProvider.needsRefresh / OutlookProvider.needsRefresh
needsRefresh(credentials, now) ==
    IF credentials.type # "oauth2" THEN FALSE
    ELSE isTokenExpired(credentials.expiresAt, now)

\* A refresh that takes the server's refresh_token as it comes
refreshAccessTokenAsIs(data, refreshToken) ==
    [accessToken |-> data.accessToken, refreshToken |-> data.refreshToken,
     expiresIn |-> data.expiresIn]

\* refreshAccessToken: the TokenResponse made of the endpoint's answer;
\* `data.refresh_token || refreshToken`
refreshAccessToken(data, refreshToken) ==
    [accessToken |-> data.accessToken,
     refreshToken |-> IF data.refreshToken # 0 THEN data.refreshToken ELSE refreshToken,
     expiresIn |-> data.expiresIn]

\* An expiry that takes expires_in for milliseconds
expiresAtUnscaled(now, expiresIn) == now + expiresIn

\* `new Date(Date.now() + tokenResponse.expiresIn * 1000)`, in milliseconds
expiresAtOf(now, expiresIn) == now + expiresIn * 1000

\* refreshCredentials: the credentials made of a TokenResponse
refreshCredentials(tokenResponse, now) ==
    OAuth2Credentials(tokenResponse.accessToken, tokenResponse.refreshToken,
                      expiresAtOf(now, tokenResponse.expiresIn))

\* accounts.upsert: the credentials it builds from its input
UpsertCredentials(input) ==
    IF input.accessToken # 0 /\ input.refreshToken # 0
    THEN OAuth2Credentials(input.accessToken, input.refreshToken, input.expiresAt)
    ELSE PasswordCredentials

\* accounts.upsert of an account: the document is put, and the credentials are
\* saved when the input carries an access token (always, for a new account)
upsert(provider, input) ==
    /\ accountDoc' = [AccountDocument(provider, accountDoc.puts + 1)
                          EXCEPT !.enabled = IF accountDoc.exists THEN accountDoc.enabled
                                             ELSE TRUE]
    /\ vault' = IF input.accessToken # 0 \/ ~accountDoc.exists
               THEN Secret(UpsertCredentials(input), vault.sets + 1)
               ELSE vault

\* Time passes
Tick ==
    /\ clock < MaxTicks * TickMs
    /\ clock' = clock + TickMs
    /\ UNCHANGED <<accountDoc, vault, tokenEndpoint, cred>>
    /\ UNCHANGED outsideCredentials

\* The user saves the account with tokens of a new grant (the account tool, or
\* the device-code flow for gmail and outlook)
UpdateAccount(provider, expiresIn) ==
    /\ cred.pc = "idle"
    /\ tokenEndpoint < MaxTokens
    /\ tokenEndpoint' = tokenEndpoint + 1
    /\ upsert(provider, OAuth2Credentials(tokenEndpoint + 1, tokenEndpoint + 1,
                                         expiresAtOf(clock, expiresIn)))
    /\ UNCHANGED <<clock, cred>>
    /\ UNCHANGED outsideCredentials

\* ensureFreshCredentials is called with the account as stored; it returns
\* account.credentials at once when the provider has no refresh support or
\* needsRefresh says no
EnsureStart ==
    /\ cred.pc = "idle"
    /\ accountDoc.exists
    /\ LET credentials == vault.credentials
           fresh == ~SupportsRefresh(accountDoc.provider) \/ ~needsRefresh(credentials, clock)
       IN cred' = [NoEnsure EXCEPT !.account = accountDoc,
                                   !.credentials = credentials,
                                   !.returned = credentials,
                                   !.pc = IF fresh THEN "returned" ELSE "refreshCredentials"]
    /\ UNCHANGED <<clock, accountDoc, vault, tokenEndpoint>>
    /\ UNCHANGED outsideCredentials

\* provider.refreshCredentials: the token endpoint answers with a new access
\* token, with or without a new refresh token, or fails (refreshCredentials
\* throws, and so does ensureFreshCredentials)
RefreshCredentials ==
    /\ cred.pc = "refreshCredentials"
    /\ \E ok \in BOOLEAN, rotates \in BOOLEAN, expiresIn \in ExpiresIn :
          IF ok /\ tokenEndpoint < MaxTokens
          THEN LET token == tokenEndpoint + 1
                   data == [accessToken |-> token,
                            refreshToken |-> IF rotates THEN token ELSE 0,
                            expiresIn |-> expiresIn]
                   tokenResponse == refreshAccessToken(data, cred.credentials.refreshToken)
               IN /\ tokenEndpoint' = token
                  /\ cred' = [cred EXCEPT !.pc = "upsert",
                                          !.refreshedAt = clock,
                                          !.server = data,
                                          !.tokenResponse = tokenResponse,
                                          !.newCredentials = refreshCredentials(tokenResponse, clock)]
          ELSE /\ cred' = [cred EXCEPT !.pc = "thrown"]
               /\ UNCHANGED tokenEndpoint
    /\ UNCHANGED <<clock, accountDoc, vault>>
    /\ UNCHANGED outsideCredentials

\* `userRepo.accounts.upsert(account.id, {...})`, then `return newCredentials`
Upsert ==
    /\ cred.pc = "upsert"
    /\ upsert(cred.account.provider, cred.newCredentials)
    /\ cred' = [cred EXCEPT !.pc = "returned", !.returned = cred.newCredentials]
    /\ UNCHANGED <<clock, tokenEndpoint>>
    /\ UNCHANGED outsideCredentials

\* The caller has the result
EnsureDone ==
    /\ cred.pc \in {"returned", "thrown"}
    /\ cred' = NoEnsure
    /\ UNCHANGED <<clock, accountDoc, vault, tokenEndpoint>>
    /\ UNCHANGED outsideCredentials

NextCredentials ==
    \/ Tick
    \/ \E provider \in Providers, expiresIn \in ExpiresIn : UpdateAccount(provider, expiresIn)
    \/ EnsureStart
    \/ RefreshCredentials
    \/ Upsert
    \/ EnsureDone

InitCredentials == Init /\ mailboxTop = 0

SpecCredentials == InitCredentials /\ [][NextCredentials]_vars

\* The call of ensureFreshCredentials has refreshed
Refreshed == cred.tokenResponse # NoResponse

C13_VaultHoldsReturned ==
    cred.pc = "returned" /\ Refreshed =>
        /\ vault.exists
        /\ vault.credentials = cred.returned
        /\ cred.returned.type = "oauth2"
        /\ cred.returned.accessToken = cred.server.accessToken
        /\ cred.returned.accessToken # cred.credentials.accessToken
        /\ cred.returned.refreshToken =
               IF cred.server.refreshToken # 0 THEN cred.server.refreshToken
               ELSE cred.credentials.refreshToken

\* C13 witness: a refresh whose answer carried no refresh token has
\* returned; the secret holds the new access token and the previous refresh
\* token.
C13_Witness ==
    /\ cred.pc = "returned"
    /\ Refreshed
    /\ cred.server.refreshToken = 0
    /\ vault.credentials.accessToken = cred.server.accessToken
    /\ vault.credentials.refreshToken = cred.credentials.refreshToken
    /\ vault.credentials.refreshToken # 0

\* C14 as amended: after a refresh the returned expires_at is the time of
\* the refresh plus the endpoint's expires_in seconds; it is at least ten
\* minutes ahead of now when expires_in is at least 600 and no time has passed
\* since the refresh.
C14_ExpiryFromExpiresIn ==
    cred.pc = "returned" /\ Refreshed =>
        /\ cred.returned.expiresAt = cred.refreshedAt + cred.server.expiresIn * 1000
        /\ cred.server.expiresIn >= 600 /\ clock = cred.refreshedAt =>
               cred.returned.expiresAt >= clock + 10 * 60 * 1000

\* C14 as stated: after a refresh the returned expires_at is at least ten
\* minutes ahead of now, whatever expires_in the endpoint answered with.
C14_ExpiryTenMinutesAhead ==
    cred.pc = "returned" /\ Refreshed =>
        cred.returned.expiresAt >= clock + 10 * 60 * 1000

\* C14 witness: a refresh answered with expires_in = 3600 has returned
\* credentials that expire an hour after the refresh.
C14_Witness ==
    /\ cred.pc = "returned"
    /\ Refreshed
    /\ cred.server.expiresIn = 3600
    /\ cred.refreshedAt > 0
    /\ cred.returned.expiresAt = cred.refreshedAt + 3600 * 1000

----------------------------------------------------------------------------
\* Activation and disposal (index.ts, polling.ts, the IDLE worker manager)

RECURSIVE Ascending(_)
\* getAllUserIds: the registered user ids as a list
Ascending(S) ==
    IF S = {} THEN <<>>
    ELSE LET x == CHOOSE x \in S : \A y \in S : x <= y
         IN <<x>> \o Ascending(S \ {x})

\* A loop that steps over every second user
NextUserSkipping(at) == at + 2

\* `for (const userId of userIds)`: the index of the next user
NextUser(at) == at + 1

\* The loop of initializePollingForExistingUsers goes to its next user, or ends
Advance(b) ==
    LET at == NextUser(b.at)
    IN [b EXCEPT !.at = at,
                 !.pc = IF at > Len(b.userIds) THEN "done" ELSE "startIdleWorker"]

\* The user the loop is at
BootUser == boot.userIds[boot.at]

\* An earlier run registered the user (registerUser)
RegisterUser(u) ==
    /\ boot.pc = "inactive"
    /\ u \notin host.registry
    /\ host' = [host EXCEPT !.registry = @ \cup {u}]
    /\ UNCHANGED <<boot, calls, ext>>
    /\ UNCHANGED outsideLifecycle

\* activate(): subscribes to the scheduler, starts
\* initializePollingForExistingUsers without awaiting it, and returns.
\* detached: the initialization is the one of polling.ts, which does not
\* await startIdleWorkerForUser; otherwise the one of index.ts, which does
Activate ==
    /\ boot.pc = "inactive"
    /\ \E detached \in BOOLEAN :
          boot' = [boot EXCEPT !.pc = "getAllUserIds", !.detached = detached,
                               !.activated = TRUE, !.atBoot = host.registry]
    /\ ext' = [ext EXCEPT !.schedulerDisposable = TRUE]
    /\ host' = [host EXCEPT !.onFire = TRUE]
    /\ UNCHANGED calls
    /\ UNCHANGED outsideLifecycle

\* `await getAllUserIds()`; a failure is caught and logged, and an empty list
\* ends the initialization
GetAllUserIds ==
    /\ boot.pc = "getAllUserIds"
    /\ \E ok \in BOOLEAN :
          LET userIds == Ascending(host.registry)
          IN boot' = [boot EXCEPT !.userIds = IF ok THEN userIds ELSE <<>>,
                                  !.pc = IF ~ok THEN "failed"
                                         ELSE IF Len(userIds) = 0 THEN "done"
                                         ELSE "startIdleWorker"]
    /\ UNCHANGED <<calls, ext, host>>
    /\ UNCHANGED outsideLifecycle

\* The host after backgroundWorkers.start has resolved for the user: a worker
\* mail-idle-<user> runs, and a second one (extra) if one was running already
WorkerStarted(u) ==
    IF u \in host.workers THEN [host EXCEPT !.extra = @ \cup {u}]
    ELSE [host EXCEPT !.workers = @ \cup {u}]

\* startIdleWorkerForUser up to its `await backgroundWorkers.start(...)`
BootStartIdleWorker ==
    /\ boot.pc = "startIdleWorker"
    /\ LET called == BootUser \notin ext.workerDisposables
       IN /\ calls' = IF called THEN [calls EXCEPT ![BootUser].start = "inflight"] ELSE calls
          /\ boot' = [boot EXCEPT !.pc = IF called /\ ~boot.detached THEN "awaitStart"
                                         ELSE "schedulePolling"]
    /\ UNCHANGED <<ext, host>>
    /\ UNCHANGED outsideLifecycle

\* backgroundWorkers.start settles: the worker runs and its disposable is
\* kept in workerDisposables, or the failure is logged
StartSettles(u) ==
    /\ calls[u].start = "inflight"
    /\ \E ok \in BOOLEAN :
          /\ calls' = [calls EXCEPT ![u].start = IF ok THEN "started" ELSE "failed"]
          /\ host' = IF ok THEN WorkerStarted(u) ELSE host
          /\ ext' = IF ok THEN [ext EXCEPT !.workerDisposables = @ \cup {u}] ELSE ext
    /\ boot' = IF boot.pc = "awaitStart" /\ BootUser = u
               THEN [boot EXCEPT !.pc = "schedulePolling"] ELSE boot
    /\ UNCHANGED outsideLifecycle

\* saveAccount of index.ts: `void startIdleWorkerForUser(userId)`, up to its
\* `await backgroundWorkers.start(...)`; with the user in workerDisposables
\* the call returns at once
SaveStartIdleWorker(u) ==
    /\ boot.activated
    /\ ~boot.disposed
    /\ ~boot.detached
    /\ calls[u].save = "none"
    /\ u \notin ext.workerDisposables
    /\ calls' = [calls EXCEPT ![u].save = "inflight"]
    /\ UNCHANGED <<boot, ext, host>>
    /\ UNCHANGED outsideLifecycle

\* The backgroundWorkers.start call made for saveAccount settles: the host
\* starts the worker and the disposable is put in workerDisposables under the
\* user's worker id, or the host rejects the call and the failure is logged
SaveStartSettles(u) ==
    /\ calls[u].save = "inflight"
    /\ \E ok \in BOOLEAN :
          /\ calls' = [calls EXCEPT ![u].save = IF ok THEN "started" ELSE "failed"]
          /\ host' = IF ok THEN WorkerStarted(u) ELSE host
          /\ ext' = IF ok THEN [ext EXCEPT !.workerDisposables = @ \cup {u}] ELSE ext
    /\ UNCHANGED boot
    /\ UNCHANGED outsideLifecycle

\* schedulePollingForUser up to its `await scheduler.schedule(...)`
BootSchedulePolling ==
    /\ boot.pc = "schedulePolling"
    /\ IF BootUser \in ext.scheduledUsers
       THEN /\ boot' = Advance(boot)
            /\ UNCHANGED calls
       ELSE /\ boot' = [boot EXCEPT !.pc = "awaitSchedule"]
            /\ calls' = [calls EXCEPT ![BootUser].schedule = "inflight"]
    /\ UNCHANGED <<ext, host>>
    /\ UNCHANGED outsideLifecycle

\* scheduler.schedule settles: the job mail-poll-<user> exists and the user
\* is added to scheduledUsers, or the failure is logged; the loop goes on
ScheduleSettles(u) ==
    /\ calls[u].schedule = "inflight"
    /\ \E ok \in BOOLEAN :
          /\ calls' = [calls EXCEPT ![u].schedule = IF ok THEN "scheduled" ELSE "failed"]
          /\ host' = IF ok THEN [host EXCEPT !.jobs = @ \cup {u}] ELSE host
          /\ ext' = IF ok THEN [ext EXCEPT !.scheduledUsers = @ \cup {u}] ELSE ext
    /\ boot' = Advance(boot)
    /\ UNCHANGED outsideLifecycle

\* The user starts a device-code flow: pollForOAuthToken begins to poll
StartOAuth(u) ==
    /\ boot.activated
    /\ ~boot.disposed
    /\ calls[u].oauth = "none"
    /\ calls' = [calls EXCEPT ![u].oauth = "polling"]
    /\ UNCHANGED <<boot, ext, host>>
    /\ UNCHANGED outsideLifecycle

\* pollForOAuthToken gets the token: the account is saved, the user is
\* registered, and schedulePollingForUser is started without awaiting it
OAuthToken(u) ==
    /\ calls[u].oauth = "polling"
    /\ host' = [host EXCEPT !.registry = @ \cup {u}]
    /\ calls' = [calls EXCEPT ![u].oauth = IF u \in ext.scheduledUsers THEN "done"
                                          ELSE "inflight"]
    /\ UNCHANGED <<boot, ext>>
    /\ UNCHANGED outsideLifecycle

\* The scheduler.schedule call made for the device-code flow settles
OAuthScheduleSettles(u) ==
    /\ calls[u].oauth = "inflight"
    /\ \E ok \in BOOLEAN :
          /\ host' = IF ok THEN [host EXCEPT !.jobs = @ \cup {u}] ELSE host
          /\ ext' = IF ok THEN [ext EXCEPT !.scheduledUsers = @ \cup {u}] ELSE ext
    /\ calls' = [calls EXCEPT ![u].oauth = "done"]
    /\ UNCHANGED boot
    /\ UNCHANGED outsideLifecycle

\* dispose(): the scheduler subscription is disposed, every disposable in
\* workerDisposables is disposed (one worker per user: the map holds the
\* disposable that was stored last) and the map cleared, and the job of every
\* user in scheduledUsers is cancelled (cancelAll of polling.ts also clears
\* scheduledUsers)
Dispose ==
    /\ boot.activated
    /\ ~boot.disposed
    /\ boot' = [boot EXCEPT !.disposed = TRUE]
    /\ host' = [host EXCEPT !.onFire = FALSE,
                            !.workers = @ \ (ext.workerDisposables \ host.extra),
                            !.extra = @ \ ext.workerDisposables,
                            !.jobs = @ \ ext.scheduledUsers]
    /\ ext' = [ext EXCEPT !.schedulerDisposable = FALSE,
                          !.workerDisposables = {},
                          !.scheduledUsers = IF boot.detached THEN {} ELSE @]
    /\ UNCHANGED calls
    /\ UNCHANGED outsideLifecycle

NextLifecycle ==
    \/ Activate
    \/ GetAllUserIds
    \/ BootStartIdleWorker
    \/ BootSchedulePolling
    \/ Dispose
    \/ \E u \in Users :
          \/ RegisterUser(u)
          \/ StartSettles(u)
          \/ SaveStartIdleWorker(u)
          \/ SaveStartSettles(u)
          \/ ScheduleSettles(u)
          \/ StartOAuth(u)
          \/ OAuthToken(u)
          \/ OAuthScheduleSettles(u)

InitLifecycle == Init /\ mailboxTop = 0

SpecLifecycle == InitLifecycle /\ [][NextLifecycle]_vars

C16_NothingAfterDispose ==
    boot.disposed =>
        /\ host.workers = {}
        /\ host.jobs = {}
        /\ ~host.onFire

----------------------------------------------------------------------------
\* Order of the deliveries of the account (checked under Spec)

\* C19: the appendInstruction calls of the account come in ascending UID
\* order: a message is passed to appendInstruction only while no message with
\* a higher UID has been passed to it, whichever invocation makes the call.
C19_AscendingDeliveries ==
    [][\A m \in Uids :
          appendCalls'[m] > appendCalls[m] =>
              \A n \in Uids : n > m => appendCalls[n] = 0]_vars

\* C34: no user has a second worker mail-idle-<user> beside a running one.
C34_OneWorkerPerUser == host.extra = {}

----------------------------------------------------------------------------
\* Deleting the account while it is being polled (AccountsRepository.delete)

\* The account document after storage.delete
NoAccountDocument == [accountDoc EXCEPT !.exists = FALSE]

\* The credentials secret after secrets.delete
NoSecret == [vault EXCEPT !.exists = FALSE]

\* What a step of delete leaves alone besides the stores it writes
outsideDelete == <<backlogVars, oauthVars, syncVars, settingsVars, registryVars, workerVars, mailboxTop, sessionInitializedAccounts, inv, appendCalls, claimsWon,
                   appendFailed, session, clock, tokenEndpoint, cred,
                   connectorVars, lifecycleVars, idleVars>>

\* delete reads the account document; without one it returns false
Delete ==
    /\ deletion.pc = "none"
    /\ deletion' = IF accountDoc.exists THEN [deletion EXCEPT !.pc = "deleteMany"]
                   ELSE [deletion EXCEPT !.pc = "returned"]
    /\ UNCHANGED <<processed, accountDoc, vault>>
    /\ UNCHANGED outsideDelete

\* storage.deleteMany(processed, {accountId})
DeleteManyProcessed ==
    /\ deletion.pc = "deleteMany"
    /\ processed' = {}
    /\ deletion' = [deletion EXCEPT !.pc = "secretsDelete"]
    /\ UNCHANGED <<accountDoc, vault>>
    /\ UNCHANGED outsideDelete

\* secrets.delete(credentials key)
SecretsDelete ==
    /\ deletion.pc = "secretsDelete"
    /\ vault' = NoSecret
    /\ deletion' = [deletion EXCEPT !.pc = "storageDelete"]
    /\ UNCHANGED <<processed, accountDoc>>
    /\ UNCHANGED outsideDelete

\* storage.delete(accounts, id); delete returns true
StorageDelete ==
    /\ deletion.pc = "storageDelete"
    /\ accountDoc' = NoAccountDocument
    /\ deletion' = [deletion EXCEPT !.pc = "returned", !.result = TRUE]
    /\ UNCHANGED <<processed, vault>>
    /\ UNCHANGED outsideDelete

\* handleNewEmail returns at its account check
ReturnWithoutAccount(h) ==
    /\ inv[h].pc = "noAccount"
    /\ inv' = [inv EXCEPT ![h] = Idle]
    /\ UNCHANGED <<mailboxTop, processed, sessionInitializedAccounts,
                   appendCalls, claimsWon, appendFailed, session>>
    /\ UNCHANGED outsideIngestion

NextDelete ==
    \/ Arrive
    \/ Delete
    \/ DeleteManyProcessed
    \/ SecretsDelete
    \/ StorageDelete
    \/ \E h \in Invocations :
          \/ Start(h)
          \/ ReadWatermark(h)
          \/ SyncFetch(h)
          \/ MarkFind(h)
          \/ MarkPut(h)
          \/ SyncReturn(h)
          \/ Fetch(h)
          \/ ClaimGet(h)
          \/ ClaimPut(h)
          \/ AppendInstruction(h)
          \/ UpdateSyncStatus(h)
          \/ ReturnWithoutAccount(h)

SpecDelete == Init /\ [][NextDelete]_vars

\* C20: once delete has returned true and no handleNewEmail invocation for the
\* account is in flight any more, there is no account document, no credentials
\* secret and no Processed row of the account.
C20_DeleteLeavesNothing ==
    deletion.result /\ (\A h \in Invocations : inv[h].pc = "idle") =>
        ~accountDoc.exists /\ ~vault.exists /\ processed = {}

----------------------------------------------------------------------------
\* Disabling the account, or deleting it, while the IDLE callback delivers
\* notifications for it

\* Times the account is disabled or enabled again
MaxToggles == 2

\* accounts.upsert(id, {enabled}): the document is put with the new flag
SetEnabled ==
    /\ accountDoc.exists
    /\ accountDoc.puts < MaxToggles
    /\ accountDoc' = [accountDoc EXCEPT !.enabled = ~@, !.puts = @ + 1]
    /\ UNCHANGED <<processed, vault, deletion>>
    /\ UNCHANGED outsideDelete

NextGone ==
    \/ Arrive
    \/ SetEnabled
    \/ Delete
    \/ DeleteManyProcessed
    \/ SecretsDelete
    \/ StorageDelete
    \/ \E h \in {"idle"} :
          \/ Start(h)
          \/ ReadWatermark(h)
          \/ SyncFetch(h)
          \/ MarkFind(h)
          \/ MarkPut(h)
          \/ SyncReturn(h)
          \/ Fetch(h)
          \/ ClaimGet(h)
          \/ ClaimPut(h)
          \/ AppendInstruction(h)
          \/ UpdateSyncStatus(h)
          \/ ReturnWithoutAccount(h)

SpecGone == Init /\ [][NextGone]_vars

\* C30: a handleNewEmail that starts while the account is disabled or has no
\* document does no work on it: its first step leads to the account check's
\* return, and from there its only step is the return, with no Processed row
\* written, the account document left as it is and appendInstruction not called.
C30_NoWorkWithoutAccount ==
    [][\A h \in Invocations :
          /\ inv[h].pc = "idle" /\ inv'[h].pc # "idle"
                  /\ ~(accountDoc.exists /\ accountDoc.enabled)
                => inv'[h].pc = "noAccount"
          /\ inv[h].pc = "noAccount" /\ inv'[h] # inv[h]
                => /\ inv'[h] = Idle
                   /\ processed' = processed
                   /\ appendCalls' = appendCalls
                   /\ accountDoc' = accountDoc]_vars

\* A notification for the disabled account, with messages to fetch, is at the
\* account check while the other kind of absence, no document, is not the case
C30_Witness ==
    /\ inv["idle"].pc = "noAccount"
    /\ accountDoc.exists /\ ~accountDoc.enabled
    /\ mailboxTop > getHighestUid(processed)

----------------------------------------------------------------------------
\* The IDLE session of one account (imap/idle.ts)

\* Maximum reconnect attempts before giving up
MAX_RECONNECT_ATTEMPTS == 5

\* `state.reconnectAttempts > MAX_RECONNECT_ATTEMPTS`
GivesUp(reconnectAttempts) == reconnectAttempts > MAX_RECONNECT_ATTEMPTS

\* handleIdleError up to its first await: the attempt is counted; the session
\* is stopped when the count has passed the maximum (stopIdle returns at once
\* for a session that is not in the map), otherwise the delay starts
handleIdleError(s) ==
    LET n == s.reconnectAttempts + 1
    IN IF GivesUp(n)
       THEN IF s.inMap
            THEN [s EXCEPT !.reconnectAttempts = n, !.isIdling = FALSE, !.pc = "stopping"]
            ELSE [s EXCEPT !.reconnectAttempts = n, !.pc = "ended"]
       ELSE [s EXCEPT !.reconnectAttempts = n, !.pc = "backoff"]

\* `await client.idle()` has resolved: `state.reconnectAttempts = 0`
roundTrip(s) == [s EXCEPT !.reconnectAttempts = 0]

\* A reconnect that also resets the count
reconnectedResetting(s) == [s EXCEPT !.connected = TRUE, !.pc = "lock", !.reconnectAttempts = 0]

\* `await state.client.connect()` has resolved: enterIdleLoop asks for the lock
reconnected(s) == [s EXCEPT !.connected = TRUE, !.pc = "lock"]

\* startIdle with a connected client: the session is put in the map and
\* enterIdleLoop asks for the lock on INBOX
StartIdle ==
    /\ state.pc = "none"
    /\ state' = [NoSession EXCEPT !.pc = "lock", !.inMap = TRUE, !.connected = TRUE]
    /\ UNCHANGED outsideIdle

\* getMailboxLock settles: isIdling is set and IDLE starts, or the error goes
\* to handleIdleError
LockSettles ==
    /\ state.pc = "lock"
    /\ \E ok \in BOOLEAN :
          state' = IF ok /\ state.connected
                   THEN [state EXCEPT !.isIdling = TRUE, !.pc = "idle"]
                   ELSE [handleIdleError(state) EXCEPT !.failures = @ + 1]
    /\ UNCHANGED outsideIdle

\* `await client.idle()` settles.  Resolved: the attempts are reset and the
\* loop goes on while isIdling.  Rejected: doIdle returns if isIdling is
\* false, otherwise the error goes to handleIdleError
IdleSettles ==
    /\ state.pc = "idle"
    /\ \E ok \in BOOLEAN :
          state' = IF ok
                   THEN [roundTrip(state) EXCEPT
                            !.failures = 0,
                            !.wasReset = @ \/ state.reconnectAttempts > 0,
                            !.pc = IF state.isIdling THEN "idle" ELSE "ended"]
                   ELSE IF ~state.isIdling
                        THEN [state EXCEPT !.pc = "ended"]
                   ELSE [handleIdleError(state) EXCEPT !.failures = @ + 1]
    /\ UNCHANGED outsideIdle

\* stopIdle called by handleIdleError: the disconnect settles and the session
\* is deleted from the map
GiveUpSettles ==
    /\ state.pc = "stopping"
    /\ state' = [state EXCEPT !.pc = "ended", !.connected = FALSE, !.inMap = FALSE]
    /\ UNCHANGED outsideIdle

\* RECONNECT_DELAY is over: `await state.client.connect()`
BackoffElapses ==
    /\ state.pc = "backoff"
    /\ state' = [state EXCEPT !.pc = "connect"]
    /\ UNCHANGED outsideIdle

\* connect settles: enterIdleLoop again on the new connection, or
\* handleIdleError again
ConnectSettles ==
    /\ state.pc = "connect"
    /\ \E ok \in BOOLEAN :
          state' = IF ok THEN reconnected(state)
                   ELSE [handleIdleError(state) EXCEPT !.failures = @ + 1]
    /\ UNCHANGED outsideIdle

\* The owner calls stopIdle: isIdling is cleared and the disconnect awaited
StopIdle ==
    /\ state.inMap
    /\ state.stop = "none"
    /\ state.pc # "stopping"
    /\ state' = [state EXCEPT !.isIdling = FALSE, !.stop = "disconnect"]
    /\ UNCHANGED outsideIdle

\* The disconnect of stopIdle settles (LOGOUT; an error is ignored) and the
\* session is deleted from the map
StopSettles ==
    /\ state.stop = "disconnect"
    /\ state' = [state EXCEPT !.stop = "done", !.connected = FALSE, !.inMap = FALSE]
    /\ UNCHANGED outsideIdle

\* refreshAllConnections finds the session idle for too long: reconnectIdle
\* clears isIdling and waits 100 ms
ReconnectIdle ==
    /\ state.inMap
    /\ state.connected
    /\ state.refresh = "none"
    /\ state' = [state EXCEPT !.isIdling = FALSE, !.refresh = "wait"]
    /\ UNCHANGED outsideIdle

\* reconnectIdle after its wait: isIdling is set again
ReconnectIdleResumes ==
    /\ state.refresh = "wait"
    /\ state' = [state EXCEPT !.isIdling = TRUE, !.refresh = "none"]
    /\ UNCHANGED outsideIdle

NextIdle ==
    \/ StartIdle
    \/ LockSettles
    \/ IdleSettles
    \/ GiveUpSettles
    \/ BackoffElapses
    \/ ConnectSettles
    \/ StopIdle
    \/ StopSettles
    \/ ReconnectIdle
    \/ ReconnectIdleResumes

InitIdle == Init /\ mailboxTop = 0

SpecIdle == InitIdle /\ [][NextIdle]_vars

\* The session is Dead: stopped by handleIdleError, and being removed or
\* removed from the map
Dead == state.pc \in {"stopping", "ended"} /\ (state.pc = "ended" => ~state.inMap)

\* C17: once five IDLE errors have come with no successful IDLE round trip in
\* between (reconnectAttempts is their count: every error increments it and a
\* round trip resets it), the session is Dead.
C17_DeadAfterFiveFailures ==
    state.reconnectAttempts >= 5 /\ state.stop = "none" => Dead

\* C18: once the owner has called stopIdle, the session never again connects,
\* enters the IDLE loop, or sets isIdling to true.
C18_StoppedStaysStopped ==
    [][state.stop # "none" =>
          /\ ~(~state.isIdling /\ state'.isIdling)
          /\ ~(~state.connected /\ state'.connected)
          /\ ~(state'.pc # state.pc /\ state'.pc \in {"connect", "lock", "idle"})]_vars

\* C25: reconnectAttempts is the number of IDLE errors since the last
\* successful IDLE round trip (since the start, before the first one): a round
\* trip resets it to 0, and nothing else does, a reconnect included.
C25_ResetOnRoundTripOnly == state.reconnectAttempts = state.failures

\* A round trip has reset a count above 0, and an error has come after it
C25_Witness == state.wasReset /\ state.reconnectAttempts > 0

\* C26: a session that is in the map with isIdling set, and that nobody has
\* stopped, has its IDLE loop running, also after reconnectIdle has run.
C26_RefreshKeepsIdling ==
    state.inMap /\ state.isIdling /\ state.stop = "none" /\ state.refresh = "none"
        => state.pc # "ended"

----------------------------------------------------------------------------
\* The IDLE worker of one user (startIdleWorkerForUser): its loop over the
\* enabled accounts, tokenRefreshLoop, and the sessions of its IdleManager.
\* A client is written as the access token it was configured with.

outsideWorker == <<backlogVars, oauthVars, syncVars, settingsVars, registryVars, ingestVars, connectorVars, credentialVars, lifecycleVars, idleVars,
                   deleteVars>>

\* The IDLE loop of the account's session is running
Running(a) == sessions[a].loop = "running"

\* startIdle(a, client): the session is put in the map and enterIdleLoop is
\* awaited
startIdle(a, client) ==
    [sessions EXCEPT ![a] = [loop |-> "running", inMap |-> TRUE, client |-> client]]

\* stopIdle(a): isIdling is cleared, the client is disconnected, the session
\* is deleted from the map; its IDLE loop ends
stopIdle(ss, a) ==
    IF ss[a].inMap THEN [ss EXCEPT ![a].loop = "ended", ![a].inMap = FALSE] ELSE ss

\* stopAll: stopIdle for every key of the map
RECURSIVE stopAllFrom(_, _)
stopAllFrom(ss, a) == IF a > MaxAccounts THEN ss ELSE stopAllFrom(stopIdle(ss, a), a + 1)

\* `activeConnections.set(accountId, {account, client})`
Track(a, client, credentials) ==
    [activeConnections EXCEPT
        ![a] = [tracked |-> TRUE, client |-> client, credentials |-> credentials]]

\* The next account of enabledAccounts after `at`, 0 when there is none
NextListed(at) ==
    LET later == {b \in worker.enabledAccounts : b > at}
    IN IF later = {} THEN 0 ELSE CHOOSE b \in later : \A c \in later : b <= c

\* The worker's `for (const account of enabledAccounts)` goes to the next
\* account; after the last one tokenRefreshLoop is started and the task waits
\* for the abort signal
WorkerNext ==
    IF NextListed(worker.at) # 0
    THEN /\ worker' = [worker EXCEPT !.at = NextListed(worker.at), !.pc = "ensure",
                                     !.credentials = 0]
         /\ UNCHANGED refreshLoop
    ELSE /\ worker' = [worker EXCEPT !.pc = "waitAbort", !.credentials = 0]
         /\ refreshLoop' = [refreshLoop EXCEPT !.pc = "wait"]

\* The account is not stored yet when the worker starts
AddedLater(a) ==
    /\ worker.pc = "none"
    /\ accounts[a].exists
    /\ accounts' = [accounts EXCEPT ![a].exists = FALSE]
    /\ UNCHANGED <<worker, refreshLoop, sessions, activeConnections, faults>>
    /\ UNCHANGED outsideWorker

\* The host runs the task: the accounts are listed (the stored ones are
\* enabled); with none the task returns
WorkerStart ==
    /\ worker.pc = "none"
    /\ LET enabledAccounts == {a \in Accounts : accounts[a].exists}
       IN worker' = IF enabledAccounts = {}
                    THEN [worker EXCEPT !.pc = "returned"]
                    ELSE [worker EXCEPT
                            !.pc = "ensure",
                            !.enabledAccounts = enabledAccounts,
                            !.at = CHOOSE a \in enabledAccounts :
                                       \A b \in enabledAccounts : a <= b]
    /\ UNCHANGED <<refreshLoop, sessions, activeConnections, accounts, faults>>
    /\ UNCHANGED outsideWorker

\* The user saves a new account after the worker was started; the
\* startIdleWorkerForUser call of the save, where there is one, returns at
\* its `workerDisposables.has(workerId)`
AddAccount(a) ==
    /\ worker.pc # "none"
    /\ ~accounts[a].exists
    /\ a \notin worker.enabledAccounts
    /\ accounts' = [accounts EXCEPT ![a].exists = TRUE]
    /\ UNCHANGED <<worker, refreshLoop, sessions, activeConnections, faults>>
    /\ UNCHANGED outsideWorker

\* ensureFreshCredentials for the account of the loop: the stored credentials
\* are fresh, or they are refreshed and saved, or the refresh throws and the
\* catch block of the loop body logs it
WorkerEnsure ==
    /\ worker.pc = "ensure"
    /\ LET a == worker.at
       IN \E outcome \in {"fresh", "refreshed", "throws"} :
             /\ outcome = "refreshed" => accounts[a].token < MaxTokens
             /\ IF outcome = "throws"
                THEN /\ WorkerNext
                     /\ faults' = TRUE
                     /\ UNCHANGED accounts
                ELSE /\ accounts' = IF outcome = "refreshed"
                                    THEN [accounts EXCEPT ![a].token = @ + 1]
                                    ELSE accounts
                     /\ worker' = [worker EXCEPT !.pc = "connect",
                                                 !.credentials = accounts'[a].token]
                     /\ UNCHANGED <<refreshLoop, faults>>
    /\ UNCHANGED <<sessions, activeConnections>>
    /\ UNCHANGED outsideWorker

\* `await client.connect()`, then `await localIdleManager.startIdle(...)`; a
\* failed connect is logged by the catch block of the loop body
WorkerConnect ==
    /\ worker.pc = "connect"
    /\ \E ok \in BOOLEAN :
          IF ok
          THEN /\ sessions' = startIdle(worker.at, worker.credentials)
               /\ worker' = [worker EXCEPT !.pc = "startIdle"]
               /\ UNCHANGED <<refreshLoop, faults>>
          ELSE /\ WorkerNext
               /\ faults' = TRUE
               /\ UNCHANGED sessions
    /\ UNCHANGED <<activeConnections, accounts>>
    /\ UNCHANGED outsideWorker

\* startIdle returns, which it does when the IDLE loop it awaits has ended;
\* the account is put in activeConnections
WorkerStartIdleReturns ==
    /\ worker.pc = "startIdle"
    /\ sessions[worker.at].loop = "ended"
    /\ activeConnections' = Track(worker.at, worker.credentials, worker.credentials)
    /\ WorkerNext
    /\ UNCHANGED <<sessions, accounts, faults>>
    /\ UNCHANGED outsideWorker

\* The host aborts ctx.signal
Abort ==
    /\ worker.pc # "none"
    /\ ~worker.aborted
    /\ worker' = [worker EXCEPT !.aborted = TRUE]
    /\ UNCHANGED <<refreshLoop, sessions, activeConnections, accounts, faults>>
    /\ UNCHANGED outsideWorker

\* The wait for the abort signal is over: `await localIdleManager.stopAll()`,
\* and the task returns
WorkerStopAll ==
    /\ worker.pc = "waitAbort"
    /\ worker.aborted
    /\ sessions' = stopAllFrom(sessions, 1)
    /\ worker' = [worker EXCEPT !.pc = "returned"]
    /\ UNCHANGED <<refreshLoop, activeConnections, accounts, faults>>
    /\ UNCHANGED outsideWorker

\* The session gives up after its reconnect attempts (handleIdleError):
\* it is stopped and deleted from the map, and its IDLE loop ends
SessionGivesUp(a) ==
    /\ Running(a)
    /\ sessions' = stopIdle(sessions, a)
    /\ faults' = TRUE
    /\ UNCHANGED <<worker, refreshLoop, activeConnections, accounts>>
    /\ UNCHANGED outsideWorker

\* The next key of activeConnections after `at`, 0 when there is none
NextTracked(at) ==
    LET later == {b \in Accounts : b > at /\ activeConnections[b].tracked}
    IN IF later = {} THEN 0 ELSE CHOOSE b \in later : \A c \in later : b <= c

\* The `for` loop of tokenRefreshLoop goes to the next entry of
\* activeConnections, or the `while` loop waits for the next interval
RefreshLoopNext(l, at) ==
    IF NextTracked(at) = 0
    THEN [l EXCEPT !.pc = "wait", !.newCredentials = 0]
    ELSE [l EXCEPT !.pc = "check", !.at = NextTracked(at), !.newCredentials = 0]

\* TOKEN_REFRESH_INTERVAL_MS has passed and the signal is not aborted
RefreshLoopFires ==
    /\ refreshLoop.pc = "wait"
    /\ ~worker.aborted
    /\ NextTracked(0) # 0
    /\ refreshLoop' = RefreshLoopNext(refreshLoop, 0)
    /\ UNCHANGED <<worker, sessions, activeConnections, accounts, faults>>
    /\ UNCHANGED outsideWorker

\* The wait ends by the abort: `if (ctx.signal.aborted) break`
RefreshLoopExits ==
    /\ refreshLoop.pc = "wait"
    /\ worker.aborted
    /\ refreshLoop' = [refreshLoop EXCEPT !.pc = "exited"]
    /\ UNCHANGED <<worker, sessions, activeConnections, accounts, faults>>
    /\ UNCHANGED outsideWorker

\* The account is read from storage; a missing account and one whose
\* credentials need no refresh are skipped.  Credentials whose refresh failed
\* still need it: needsRefresh compares the same expiresAt with a later now
RefreshLoopCheck ==
    /\ refreshLoop.pc = "check"
    /\ \E needs \in {b \in BOOLEAN : refreshLoop.at \in refreshLoop.failed => b} :
          refreshLoop' = IF accounts[refreshLoop.at].exists /\ needs
                         THEN [refreshLoop EXCEPT !.pc = "ensure", !.failed = @ \ {refreshLoop.at}]
                         ELSE RefreshLoopNext(refreshLoop, refreshLoop.at)
    /\ UNCHANGED <<worker, sessions, activeConnections, accounts, faults>>
    /\ UNCHANGED outsideWorker

\* ensureFreshCredentials in the loop: the new credentials are saved, or the
\* refresh throws and the catch block of the loop body logs it
RefreshLoopEnsure ==
    /\ refreshLoop.pc = "ensure"
    /\ LET a == refreshLoop.at
       IN \E ok \in BOOLEAN :
             IF ok /\ accounts[a].token < MaxTokens
             THEN /\ accounts' = [accounts EXCEPT ![a].token = @ + 1]
                  /\ refreshLoop' = [refreshLoop EXCEPT !.pc = "stopIdle",
                                                       !.newCredentials = accounts'[a].token]
                  /\ UNCHANGED faults
             ELSE /\ refreshLoop' = [RefreshLoopNext(refreshLoop, a) EXCEPT
                                        !.failed = @ \cup {a}]
                  /\ faults' = TRUE
                  /\ UNCHANGED accounts
    /\ UNCHANGED <<worker, sessions, activeConnections>>
    /\ UNCHANGED outsideWorker

\* `await localIdleManager.stopIdle(accountId)`
RefreshLoopStopIdle ==
    /\ refreshLoop.pc = "stopIdle"
    /\ sessions' = stopIdle(sessions, refreshLoop.at)
    /\ refreshLoop' = [refreshLoop EXCEPT !.pc = "connect"]
    /\ UNCHANGED <<worker, activeConnections, accounts, faults>>
    /\ UNCHANGED outsideWorker

\* `await newClient.connect()`, then `await localIdleManager.startIdle(...)`
RefreshLoopConnect ==
    /\ refreshLoop.pc = "connect"
    /\ \E ok \in BOOLEAN :
          IF ok
          THEN /\ sessions' = startIdle(refreshLoop.at, refreshLoop.newCredentials)
               /\ refreshLoop' = [refreshLoop EXCEPT !.pc = "startIdle",
                                                    !.dropped = @ \ {refreshLoop.at}]
               /\ UNCHANGED faults
          ELSE /\ refreshLoop' = [RefreshLoopNext(refreshLoop, refreshLoop.at) EXCEPT
                                     !.dropped = @ \cup {refreshLoop.at}]
               /\ faults' = TRUE
               /\ UNCHANGED sessions
    /\ UNCHANGED <<worker, activeConnections, accounts>>
    /\ UNCHANGED outsideWorker

\* startIdle returns when the IDLE loop it awaits has ended; the entry of the
\* account is replaced
RefreshLoopStartIdleReturns ==
    /\ refreshLoop.pc = "startIdle"
    /\ sessions[refreshLoop.at].loop = "ended"
    /\ activeConnections' = Track(refreshLoop.at, refreshLoop.newCredentials,
                                  refreshLoop.newCredentials)
    /\ refreshLoop' = RefreshLoopNext(refreshLoop, refreshLoop.at)
    /\ UNCHANGED <<worker, sessions, accounts, faults>>
    /\ UNCHANGED outsideWorker

\* The account is deleted while the worker holds its session, by the
\* deleteAccount action or by the mail_accounts_delete tool, whose callback
\* calls stopIdle on the IdleManager of the extension, which has no session
DeleteAccount(a) ==
    /\ accounts[a].exists
    /\ Running(a)
    /\ accounts' = [accounts EXCEPT ![a].exists = FALSE]
    /\ UNCHANGED <<worker, refreshLoop, sessions, activeConnections, faults>>
    /\ UNCHANGED outsideWorker

NextWorker ==
    \/ WorkerStart
    \/ WorkerEnsure
    \/ WorkerConnect
    \/ WorkerStartIdleReturns
    \/ Abort
    \/ WorkerStopAll
    \/ RefreshLoopFires
    \/ RefreshLoopExits
    \/ RefreshLoopCheck
    \/ RefreshLoopEnsure
    \/ RefreshLoopStopIdle
    \/ RefreshLoopConnect
    \/ RefreshLoopStartIdleReturns
    \/ \E a \in Accounts :
          SessionGivesUp(a) \/ DeleteAccount(a) \/ AddedLater(a) \/ AddAccount(a)

\* The steps of the task and of tokenRefreshLoop
WorkerProgress ==
    \/ WorkerStart
    \/ WorkerEnsure
    \/ WorkerConnect
    \/ WorkerStartIdleReturns
    \/ WorkerStopAll
    \/ RefreshLoopFires
    \/ RefreshLoopExits
    \/ RefreshLoopCheck
    \/ RefreshLoopEnsure
    \/ RefreshLoopStopIdle
    \/ RefreshLoopConnect
    \/ RefreshLoopStartIdleReturns

InitWorker == Init /\ mailboxTop = 0

\* The event loop runs every continuation that is ready and every timer that
\* is due; nothing obliges the host to abort, a session to fail, or the user
\* to delete
SpecWorker == InitWorker /\ [][NextWorker]_vars /\ WF_vars(WorkerProgress)

\* Every account has its IDLE loop running and its entry in activeConnections
AllIdlingTogether == \A a \in Accounts : Running(a) /\ activeConnections[a].tracked

\* Something other than the worker's own steps has happened: a refresh or a
\* connect failed, a session gave up, the signal was aborted, an account was
\* deleted
Disturbed == faults \/ worker.aborted \/ \E a \in Accounts : ~accounts[a].exists

\* C21: once the worker has started, and as long as no connect or refresh
\* fails, no session gives up and nobody aborts or deletes, there comes a
\* moment at which every account has its IDLE loop running and is tracked in
\* activeConnections.
C21_AllIdlingTogether == <>(AllIdlingTogether \/ Disturbed)

\* C22: when the signal is aborted while a session is idling, the worker
\* eventually has run stopAll: the task has returned and no IDLE loop runs.
C22_AbortStopsAll ==
    (worker.aborted /\ \E a \in Accounts : Running(a))
        ~> (worker.pc = "returned" /\ \A a \in Accounts : ~Running(a))

\* C23: when tokenRefreshLoop, having refreshed the credentials of an account
\* and started IDLE on a new client, sets the account's entry of
\* activeConnections, the new credentials are the stored ones, IDLE is running
\* on the new client, and the entry holds that client and those credentials.
C23_RestartedAndTracked ==
    [][refreshLoop.pc = "startIdle" /\ activeConnections' # activeConnections =>
          LET a == refreshLoop.at
              new == refreshLoop.newCredentials
          IN /\ accounts'[a].token = new
             /\ sessions'[a] = [loop |-> "running", inMap |-> TRUE, client |-> new]
             /\ activeConnections'[a] =
                    [tracked |-> TRUE, client |-> new, credentials |-> new]]_vars

\* C24: an account whose refresh failed on a tick has its refresh attempted
\* again, unless the worker is aborted or the account deleted before.
C24_FailedRefreshRetried ==
    \A a \in Accounts :
        (a \in refreshLoop.failed)
            ~> (a \notin refreshLoop.failed \/ worker.aborted \/ ~accounts[a].exists)

\* C27: the worker runs no IDLE loop for an account that has been deleted.
C27_DeletedAccountNotIdling == \A a \in Accounts : ~accounts[a].exists => ~Running(a)

\* C37: an account saved after the worker was started eventually has its IDLE
\* loop running, unless the worker is aborted before.
C37_LateAccountGetsIdle ==
    \A a \in Accounts :
        (worker.pc # "none" /\ accounts[a].exists /\ a \notin worker.enabledAccounts)
            ~> (Running(a) \/ worker.aborted)

\* C38: after a connect has failed on a tick that had stopped the account's
\* session, tokenRefreshLoop comes to the end of that tick, so that a later
\* tick can connect the account again, unless the account is idling again,
\* the worker is aborted or the account is deleted before.
C38_DroppedAccountSeesLaterTick ==
    \A a \in Accounts :
        (a \in refreshLoop.dropped)
            ~> \/ refreshLoop.pc = "wait"
               \/ Running(a)
               \/ worker.aborted
               \/ ~accounts[a].exists

----------------------------------------------------------------------------
\* Saving and deleting the accounts of one user: the registry entry of the
\* user, the poll job and the worker

\* Accounts the user can have
MaxStored == 2

outsideRegistry == <<backlogVars, oauthVars, syncVars, settingsVars, ingestVars, connectorVars, credentialVars, lifecycleVars, idleVars,
                     deleteVars, workerVars>>

\* No operation is in flight, the host calls it started included
Quiet == \A k \in Saves \cup Deletes : ops[k] \in {"none", "done", "failed"}

\* What follows `accounts.upsert` in each way of saving
AfterUpsert(k) ==
    CASE k = "saveAccount" -> "registerUser"
      [] k = "oauth" -> "registerUser"
      [] k = "saveAccountIndex" -> "calls"
      [] k = "tool" -> "done"

\* accounts.upsert of a new account; a failure ends the operation
SaveUpsert(k) ==
    /\ ops[k] = "none"
    /\ user.stored < MaxStored
    /\ \E ok \in BOOLEAN :
          /\ user' = IF ok THEN [user EXCEPT !.stored = @ + 1] ELSE user
          /\ ops' = [ops EXCEPT ![k] = IF ok THEN AfterUpsert(k) ELSE "failed"]
    /\ UNCHANGED outsideRegistry

\* `await extensionRepo.registerUser(userId)`; then schedulePollingForUser is
\* called without awaiting it and the operation returns
SaveRegisterUser(k) ==
    /\ ops[k] = "registerUser"
    /\ user' = [user EXCEPT !.registered = TRUE]
    /\ ops' = [ops EXCEPT ![k] = "calls"]
    /\ UNCHANGED outsideRegistry

\* The host calls made for the save settle: scheduler.schedule, and for the
\* saveAccount action of index.ts also backgroundWorkers.start
SaveCallsSettle(k) ==
    /\ ops[k] = "calls"
    /\ \E ok \in BOOLEAN :
          /\ user' = IF ok
                      THEN [user EXCEPT !.job = TRUE,
                                        !.worker = @ \/ k = "saveAccountIndex"]
                      ELSE user
          /\ ops' = [ops EXCEPT ![k] = IF ok THEN "done" ELSE "failed"]
    /\ UNCHANGED outsideRegistry

\* accounts.delete of one of the user's accounts
DeleteStored(k) ==
    /\ k \in Deletes
    /\ ops[k] = "none"
    /\ user.stored > 0
    /\ user' = [user EXCEPT !.stored = @ - 1]
    /\ ops' = [ops EXCEPT ![k] = IF k = "deleteAccount" THEN "list" ELSE "done"]
    /\ UNCHANGED outsideRegistry

\* deleteAccount: `accounts.list()`; with no account left unregisterUser is
\* awaited next
DeleteList ==
    /\ ops["deleteAccount"] = "list"
    /\ ops' = [ops EXCEPT !["deleteAccount"] = IF user.stored = 0 THEN "unregisterUser"
                                                ELSE "done"]
    /\ UNCHANGED user
    /\ UNCHANGED outsideRegistry

\* deleteAccount: `await extensionRepo.unregisterUser(userId)`
DeleteUnregisterUser ==
    /\ ops["deleteAccount"] = "unregisterUser"
    /\ user' = [user EXCEPT !.registered = FALSE]
    /\ ops' = [ops EXCEPT !["deleteAccount"] = "done"]
    /\ UNCHANGED outsideRegistry

NextRegistry ==
    \/ \E k \in Saves : SaveUpsert(k) \/ SaveRegisterUser(k) \/ SaveCallsSettle(k)
    \/ \E k \in Deletes : DeleteStored(k)
    \/ DeleteList
    \/ DeleteUnregisterUser

InitRegistry == Init /\ mailboxTop = 0

SpecRegistry == InitRegistry /\ [][NextRegistry]_vars

\* C28: when an account has been saved, in any of the ways, and the host
\* calls made for it have succeeded, and no account has been deleted, the user
\* is in the registry, the poll job is scheduled and the worker is running.
C28_SavedUserIsServed ==
    (\E k \in Saves : ops[k] = "done") /\ (\A d \in Deletes : ops[d] = "none")
        => user.registered /\ user.job /\ user.worker

\* C29: when no saveAccount, device-code or deleteAccount operation is in
\* flight (and only these have been used), the user is in the registry iff
\* the user has an account.
C29_RegisteredIffHasAccount ==
    /\ Quiet
    /\ ops["tool"] = "none" /\ ops["deleteTool"] = "none" /\ ops["saveAccountIndex"] = "none"
    /\ ops["saveAccount"] # "failed" /\ ops["oauth"] # "failed"
    => (user.registered <=> user.stored > 0)

----------------------------------------------------------------------------
\* The device-code flow: startOAuth, pollForOAuthToken, and the actions on the
\* edit form meanwhile

\* const maxAttempts = 60
maxAttempts == 60

\* What the token endpoint answers to a poll
Responses == {"authorization_pending", "slow_down", "token", "access_denied"}

outsideOAuth == <<backlogVars, syncVars, settingsVars, registryVars, ingestVars, connectorVars,
                  credentialVars, lifecycleVars, idleVars, deleteVars, workerVars>>

\* The loop going on after every answer that is no token
ContinuesOnAnyError(response) == response # "token"

\* The loop goes on: pollForToken returns null on these two errors, and the
\* catch block goes on when the message includes one of them
Continues(response) == response \in {"authorization_pending", "slow_down"}

\* The failure branches with the status left as it is
failedAwaiting(s) == s

\* The fatal-error branch and the timeout: state.oauthStatus = 'pending'
failed(s) == [s EXCEPT !.oauthStatus = "pending"]

\* getEditState(userId): the user's entry, created when there is none
getEditState == IF edit.present THEN edit ELSE [DefaultEditState EXCEPT !.present = TRUE]

\* The edit state object pollForOAuthToken took at its start
Held == IF flow.detached THEN flow.own ELSE edit

\* The user's entry and the flow after the flow has written s to its object
HeldEdit(s) == IF flow.detached THEN edit ELSE s
HeldOwn(s) == IF flow.detached THEN s ELSE flow.own

\* showAddForm: the blank form
ShowAddForm ==
    /\ edit' = [DefaultEditState EXCEPT !.present = TRUE, !.showModal = TRUE]
    /\ UNCHANGED flow
    /\ UNCHANGED outsideOAuth

\* editAccount: the form is filled from the stored account
EditAccount(a) ==
    /\ edit' = [getEditState EXCEPT
                   !.showModal = TRUE,
                   !.editingId = a,
                   !.form = [of |-> a, provider |-> "icloud"],
                   !.oauthStatus = IF flow.savedTo = a THEN "connected" ELSE "pending"]
    /\ UNCHANGED flow
    /\ UNCHANGED outsideOAuth

\* updateFormField('provider', ...): the OAuth status is reset
UpdateFormField(provider) ==
    /\ edit.present
    /\ edit.form.provider # provider
    /\ edit' = [edit EXCEPT !.form.provider = provider, !.oauthStatus = "pending"]
    /\ UNCHANGED flow
    /\ UNCHANGED outsideOAuth

\* closeModal: showModal = false, then deleteEditState; a running
\* pollForOAuthToken keeps the object
CloseModal ==
    /\ edit.present
    /\ edit' = DefaultEditState
    /\ flow' = IF flow.pc \notin {"none", "returned"} /\ ~flow.detached
               THEN [flow EXCEPT !.detached = TRUE, !.own = [edit EXCEPT !.showModal = FALSE]]
               ELSE flow
    /\ UNCHANGED outsideOAuth

\* startOAuth with an OAuth provider chosen: the device code is obtained, the
\* status is 'awaiting' and pollForOAuthToken is started without awaiting it
StartDeviceFlow ==
    /\ flow.pc = "none"
    /\ edit.present
    /\ edit.form.provider = "gmail"
    /\ edit' = [edit EXCEPT !.oauthStatus = "awaiting"]
    /\ flow' = [NoFlow EXCEPT !.pc = "loop", !.startedFor = edit.editingId,
                              !.startedForm = edit.form.of]
    /\ UNCHANGED outsideOAuth

\* `attempt < maxAttempts`: the interval is waited for, or the loop is left
\* and the timeout is reported
PollIterate ==
    /\ flow.pc = "loop"
    /\ IF flow.attempt < maxAttempts
       THEN /\ flow' = [flow EXCEPT !.pc = "poll"]
            /\ UNCHANGED edit
       ELSE /\ flow' = [flow EXCEPT !.pc = "returned", !.outcome = "timeout",
                                    !.own = HeldOwn(failed(Held))]
            /\ edit' = HeldEdit(failed(Held))
    /\ UNCHANGED outsideOAuth

\* The token endpoint answers the poll
PollToken ==
    /\ flow.pc = "poll"
    /\ \E response \in Responses :
          LET polled == [flow EXCEPT !.polls = @ + 1, !.last = response]
          IN CASE response = "token" ->
                    /\ flow' = [polled EXCEPT !.pc = "upsert"]
                    /\ UNCHANGED edit
               [] response # "token" /\ Continues(response) ->
                    /\ flow' = [polled EXCEPT !.pc = "loop", !.attempt = @ + 1]
                    /\ UNCHANGED edit
               [] OTHER ->
                    /\ flow' = [polled EXCEPT !.pc = "returned", !.outcome = "fatal",
                                              !.own = HeldOwn(failed(Held))]
                    /\ edit' = HeldEdit(failed(Held))
    /\ UNCHANGED outsideOAuth

\* accounts.upsert(state.editingId || undefined, {name, email of state.form, token})
PollUpsert ==
    /\ flow.pc = "upsert"
    /\ flow' = [flow EXCEPT !.pc = "registerUser", !.savedTo = Held.editingId,
                            !.savedForm = Held.form.of]
    /\ UNCHANGED edit
    /\ UNCHANGED outsideOAuth

\* registerUser; oauthStatus = 'connected', showModal = false;
\* schedulePollingForUser is called; return
PollRegisterUser ==
    /\ flow.pc = "registerUser"
    /\ LET s == [Held EXCEPT !.oauthStatus = "connected", !.showModal = FALSE]
       IN /\ flow' = [flow EXCEPT !.pc = "returned", !.outcome = "token",
                                  !.registered = TRUE, !.scheduled = TRUE,
                                  !.own = HeldOwn(s)]
          /\ edit' = HeldEdit(s)
    /\ UNCHANGED outsideOAuth

PollProgress == PollIterate \/ PollToken \/ PollUpsert \/ PollRegisterUser

NextOAuth ==
    \/ ShowAddForm
    \/ \E a \in Accounts : EditAccount(a)
    \/ \E provider \in {"icloud", "gmail"} : UpdateFormField(provider)
    \/ CloseModal
    \/ StartDeviceFlow
    \/ PollIterate
    \/ PollToken
    \/ PollUpsert
    \/ PollRegisterUser

InitOAuth == Init /\ mailboxTop = 0

\* Every await of pollForOAuthToken settles
SpecOAuth == InitOAuth /\ [][NextOAuth]_vars /\ WF_vars(PollProgress)

\* C31: pollForOAuthToken polls the token endpoint at most 60 times, is in its
\* loop only while every answer so far was authorization_pending or slow_down,
\* and, once started, eventually returns.
C31_PollingTerminates ==
    /\ [](/\ flow.polls <= maxAttempts
          /\ flow.pc \in {"loop", "poll"} =>
                 flow.last \in {"none", "authorization_pending", "slow_down"})
    /\ (flow.pc # "none" ~> flow.pc = "returned")

\* The 60th poll was answered with authorization_pending and the call returned
C31_Witness ==
    flow.pc = "returned" /\ flow.outcome = "timeout" /\ flow.polls = maxAttempts

C35_SavedWhereStarted ==
    flow.savedTo # -1 => flow.savedTo = flow.startedFor /\ flow.savedForm = flow.startedForm

----------------------------------------------------------------------------
\* The poll job on an INBOX that grows by more than the fetch limit between
\* two polls; the IDLE session is down, so handleNewEmail runs one at a time

\* Highest UID of the large INBOX
MaxTop == 52

outsideBacklog == <<oauthVars, syncVars, settingsVars, registryVars, ingestVars,
                    connectorVars, credentialVars, lifecycleVars, idleVars, deleteVars,
                    workerVars>>

\* The mail server accepts one message, or more than the fetch limit at once
BacklogArrive ==
    /\ \E k \in {1, FETCH_LIMIT + 1} :
          /\ backlog.top + k <= MaxTop
          /\ backlog' = [backlog EXCEPT !.top = @ + k]
    /\ UNCHANGED outsideBacklog

\* The poll job fires: handleNewEmail reads the watermark and chooses the rule
BacklogPoll ==
    /\ backlog.pc = "idle"
    /\ backlog' = [backlog EXCEPT
                      !.pc = IF BranchOf(backlog.watermark, TRUE) = "baseline"
                             THEN "sync" ELSE "fetch"]
    /\ UNCHANGED outsideBacklog

\* syncAccountBaseline: the highest fetched UID is marked, nothing is delivered
BacklogSync ==
    /\ backlog.pc = "sync"
    /\ LET emails == fetchNewEmails(backlog.top, 0, FETCH_LIMIT)
       IN backlog' = IF Len(emails) = 0
                     THEN [backlog EXCEPT !.pc = "idle"]
                     ELSE [backlog EXCEPT !.pc = "idle",
                                          !.baseline = highestUid(emails),
                                          !.watermark = highestUid(emails)]
    /\ UNCHANGED outsideBacklog

\* provider.fetchNewEmails(account, credentials, sinceUid) succeeds
BacklogFetch ==
    /\ backlog.pc = "fetch"
    /\ LET emails == fetchNewEmails(backlog.top, backlog.watermark, FETCH_LIMIT)
       IN backlog' = IF Len(emails) = 0
                     THEN [backlog EXCEPT !.pc = "idle"]
                     ELSE [backlog EXCEPT !.pc = "deliver",
                                          !.next = emails[1],
                                          !.hi = emails[Len(emails)]]
    /\ UNCHANGED outsideBacklog

\* One round of the loop: tryMarkProcessed claims the message (no other
\* handler runs) and appendInstruction is called; after the last one the
\* invocation returns
BacklogDeliver ==
    /\ backlog.pc = "deliver"
    /\ backlog' = [backlog EXCEPT
                      !.watermark = Max({@, backlog.next}),
                      !.delivered = @ \cup {backlog.next},
                      !.next = @ + 1,
                      !.pc = IF backlog.next = backlog.hi THEN "idle" ELSE "deliver"]
    /\ UNCHANGED outsideBacklog

NextBacklog ==
    \/ BacklogArrive
    \/ BacklogPoll
    \/ BacklogSync
    \/ BacklogFetch
    \/ BacklogDeliver

InitBacklog == Init /\ mailboxTop = 0

SpecBacklog == InitBacklog /\ [][NextBacklog]_vars

\* C33: no message that arrived after the baseline is left at or below the
\* watermark without having been passed to appendInstruction (fetches look
\* only above the watermark, so such a message is never delivered).
C33_NothingLeftBehind ==
    \A m \in 1..MaxTop :
        backlog.baseline > 0 /\ backlog.baseline < m /\ m <= backlog.watermark
            /\ (backlog.pc = "deliver" => m < backlog.next)
            => m \in backlog.delivered

----------------------------------------------------------------------------
\* Writers of the account document that read it first: updateSyncStatus and
\* the upsert of ensureFreshCredentials, beside accounts.delete and an update
\* of the account

\* updateSyncStatus calls in a run
MaxSyncs == 1

outsideSync == <<backlogVars, oauthVars, settingsVars, registryVars, workerVars, deleteVars,
                 ingestVars, connectorVars, lifecycleVars, idleVars,
                 clock, vault, tokenEndpoint, cred>>

\* `{...doc, lastSyncAt: now, lastError: error, updatedAt: now}`, as put
updatedDoc(doc, puts) == [doc EXCEPT !.puts = puts + 1]

\* updateSyncStatus: `storage.get(accounts, id)`; without a document it returns
SyncGet ==
    /\ sync.pc = "none"
    /\ sync.calls < MaxSyncs
    /\ sync' = IF accountDoc.exists
               THEN [pc |-> "put", doc |-> accountDoc, calls |-> sync.calls + 1]
               ELSE [sync EXCEPT !.calls = @ + 1]
    /\ UNCHANGED accountDoc
    /\ UNCHANGED outsideSync

\* updateSyncStatus: `storage.put(accounts, id, updatedDoc)`
SyncPut ==
    /\ sync.pc = "put"
    /\ accountDoc' = updatedDoc(sync.doc, accountDoc.puts)
    /\ sync' = [sync EXCEPT !.pc = "none"]
    /\ UNCHANGED outsideSync

NextSync ==
    \/ Tick
    \/ \E provider \in Providers, expiresIn \in ExpiresIn :
          deletion.pc = "none" /\ UpdateAccount(provider, expiresIn)
    \/ EnsureStart
    \/ RefreshCredentials
    \/ Upsert
    \/ EnsureDone
    \/ Delete
    \/ DeleteManyProcessed
    \/ SecretsDelete
    \/ StorageDelete
    \/ SetEnabled
    \/ SyncGet
    \/ SyncPut

InitSync == Init /\ mailboxTop = 0

SpecSync == InitSync /\ [][NextSync]_vars

\* C36: once accounts.delete has returned true, and with no account saved
\* since it was called, the account has no document and no credentials secret.
C36_DeletedStaysDeleted ==
    deletion.result => ~accountDoc.exists /\ ~vault.exists

\* C39: the put of updateSyncStatus leaves `enabled` and `provider` of the
\* stored document as they are at that moment.
C39_SyncStatusKeepsOtherFields ==
    [][sync.pc = "put" /\ sync'.pc = "none" /\ accountDoc.exists
          => /\ accountDoc'.enabled = accountDoc.enabled
             /\ accountDoc'.provider = accountDoc.provider]_vars

----------------------------------------------------------------------------
\* SettingsRepository: get with its lazy creation of the default document,
\* and update

\* Instructions a user saves
MaxInstructions == 2

outsideSettings == <<backlogVars, oauthVars, syncVars, registryVars, workerVars, deleteVars,
                     ingestVars, connectorVars, credentialVars, lifecycleVars, idleVars>>

\* The default document get creates: `instruction: ''`
DefaultSettingsDocument == [exists |-> TRUE, instruction |-> 0]

\* get is called (c = "get", "view"), or update is called with an instruction and
\* begins with `await this.get()` (c = "update")
SettingsCall(c) ==
    /\ settingsOps[c] = "none"
    /\ \E v \in 1..MaxInstructions :
          settingsOps' = [settingsOps EXCEPT ![c] = "get",
                                             !.value = IF c = "update" THEN v ELSE @]
    /\ UNCHANGED settingsRow
    /\ UNCHANGED outsideSettings

\* get: `storage.get(settings, 'user-settings')`; with a document it returns
\* it, without one it goes on to create the default
SettingsGet(c) ==
    /\ settingsOps[c] = "get"
    /\ settingsOps' = [settingsOps EXCEPT
                          ![c] = IF ~settingsRow.exists THEN "create"
                                 ELSE IF c = "update" THEN "put" ELSE "none"]
    /\ UNCHANGED settingsRow
    /\ UNCHANGED outsideSettings

\* get: `storage.put(settings, 'user-settings', newDoc)` and return
SettingsCreate(c) ==
    /\ settingsOps[c] = "create"
    /\ settingsRow' = DefaultSettingsDocument
    /\ settingsOps' = [settingsOps EXCEPT ![c] = IF c = "update" THEN "put" ELSE "none"]
    /\ UNCHANGED outsideSettings

\* update: `storage.put(settings, settings.id, doc)` with the instruction it
\* was called with, and return
SettingsUpdatePut ==
    /\ settingsOps.update = "put"
    /\ settingsRow' = [exists |-> TRUE, instruction |-> settingsOps.value]
    /\ settingsOps' = [settingsOps EXCEPT !.update = "none",
                                          !.completed = settingsOps.value]
    /\ UNCHANGED outsideSettings

NextSettings ==
    \/ \E c \in {"get", "view", "update"} : SettingsCall(c) \/ SettingsGet(c) \/ SettingsCreate(c)
    \/ SettingsUpdatePut

InitSettings == Init /\ mailboxTop = 0

SpecSettings == InitSettings /\ [][NextSettings]_vars

\* C40: once an update has returned, the stored instruction is the one of the
\* update that returned last, whatever get calls run meanwhile.
C40_GetKeepsInstruction ==
    settingsOps.completed # 0 =>
        settingsRow.exists /\ settingsRow.instruction = settingsOps.completed
====
